---------------------------- MODULE Spec2Model ----------------------------
(***************************************************************************)
(* Portfolio analytics engine of the loan dashboard: the formula functions *)
(* of utils.py and db.py (portfolio yield, realized interest, LTV, monthly *)
(* pivots and their year-over-year and month-over-month deltas, the        *)
(* normalization of legacy encodings), the health score and the aged items *)
(* alert of the Executive Dashboard page and the yield cohort of the       *)
(* Interest Yield Analysis page, modelled as operators over small          *)
(* data frames, and the two-layer data cache of data_cache.py, modelled as *)
(* a state machine over a clock.  A data frame is a sequence of rows       *)
(* (records); a float is an exact rational <<numerator, denominator>>; a   *)
(* missing value (NaN / None / NaT) is the empty tuple and a present value *)
(* v is <<v>>.                                                             *)
(***************************************************************************)
EXTENDS Integers, Sequences, FiniteSets, TLC

VARIABLES
    cohort,     \* yield: the data frame handed to calculate_portfolio_yield
    metrics,    \* yield: <<>> or <<the dict it returned>>
    loans,      \* loan formulas: the data frame of loan rows
    realized,   \* loan formulas: <<>> or <<the Series of realized interest>>
    ltv,        \* loan formulas: <<>> or <<the Series of LTV percentages>>
    records,    \* pivot: the data frame handed to create_monthly_pivot
    agg,        \* pivot: the agg_func of the call
    pivot,      \* pivot: <<>> or <<outcome of create_monthly_pivot>>
    yoy,        \* pivot: <<>> or <<the frame calculate_yoy_change returned>>
    mom,        \* pivot: <<>> or <<the frame calculate_mom_change returned>>
    health,     \* health: <<>> or <<the scores of the Portfolio Health Dashboard>>
    aging,      \* aging: <<>> or <<the outcome of the Aged Items Alert block>>
    example,    \* aging: <<>> or the documented payment-overdue example
    normalized, \* normalize: <<>> or <<the frame after normalize_customer_data>>
    now,        \* cache: the wall clock, in seconds
    ticks,      \* the number of clock advances (cache) or of later runs (aging, normalize) so far
    fetches,    \* cache: the number of database fetches so far
    st_cache,   \* cache: the entries of the st.cache_data functions (shared by all sessions)
    session_state, \* cache: st.session_state of the session, a function of its keys
    served,     \* cache: <<>> or <<the data access just made and what it returned>>
    cleared,    \* cache: history of the last clear_all_cache of the session
    table,      \* cache: the content of the loan table of the database
    yield_df    \* yield data: <<>> or <<what prepare_yield_data returned>>

vars == <<cohort, metrics, loans, realized, ltv, records, agg, pivot, yoy, mom, health, aging, example, normalized, now, ticks, fetches, st_cache, session_state, served, cleared, table, yield_df>>

----------------------------------------------------------------------------
(* Bounds of the model *)

MaxLoans == 2
MaxRows == 2
MaxRecords == 2
NumYears == 2

----------------------------------------------------------------------------
(* Missing values and exact arithmetic *)

NaN == <<>>

Num(v) == <<v>>

isna(x) == x = NaN

\* pandas comparison `x > 0`: False for a missing value
GtZero(x) == IF isna(x) THEN FALSE ELSE x[1] > 0

\* pandas comparison `x <= 0`: False for a missing value
LeZero(x) == IF isna(x) THEN FALSE ELSE x[1] <= 0

Abs(n) == IF n < 0 THEN -n ELSE n

RECURSIVE GCD(_, _)
GCD(a, b) == IF b = 0 THEN a ELSE GCD(b, a % b)

\* the rational n/d (d # 0) in lowest terms with a positive denominator
Rat(n, d) ==
    LET g == GCD(Abs(n), Abs(d))
        s == IF d < 0 THEN -1 ELSE 1
    IN  <<(s * n) \div g, (s * d) \div g>>

Int2Rat(n) == <<n, 1>>

Zero == <<0, 1>>

RAdd(a, b) == Rat(a[1] * b[2] + b[1] * a[2], a[2] * b[2])

RMul(a, b) == Rat(a[1] * b[1], a[2] * b[2])

RDiv(a, b) == Rat(a[1] * b[2], a[2] * b[1])

RGtZero(a) == a[1] > 0

RLess(a, b) == a[1] * b[2] < b[1] * a[2]

----------------------------------------------------------------------------
(* Column helpers: what pandas does with a column of a data frame *)

\* df[col]: the values of one column of a frame
Column(df, col) == [i \in DOMAIN df |-> df[i][col]]

\* Series.sum(): missing values are skipped (skipna), the empty sum is 0
RECURSIVE SeriesSum(_)
SeriesSum(s) ==
    IF s = <<>> THEN 0
    ELSE (IF isna(Head(s)) THEN 0 ELSE Head(s)[1]) + SeriesSum(Tail(s))

\* element-wise product of two columns: missing if either operand is missing
Times(a, b) == IF isna(a) \/ isna(b) THEN NaN ELSE Num(a[1] * b[1])

----------------------------------------------------------------------------
(* Portfolio yield: utils.calculate_portfolio_yield *)

InterestValues == {0, 1, 2}

CapitalValues == {0, 1, 2}

DaysValues == {-1, 0, 1, 2}

Optional(S) == {NaN} \cup {Num(v) : v \in S}

YieldRows == [interest : {Num(v) : v \in InterestValues},
              capital : Optional(CapitalValues),
              days : Optional(DaysValues)]

Frames(Rows, n) == UNION {[1..k -> Rows] : k \in 0..n}

\* faulty variant: the holding-days condition of the filter is forgotten
ValidMaskCapitalOnly(row) == GtZero(row.capital)

\* faulty variant: >= instead of > in the filter
ValidMaskNonNegative(row) ==
    /\ ~isna(row.capital) /\ row.capital[1] >= 0
    /\ ~isna(row.days) /\ row.days[1] >= 0

\* (df[capital_col] > 0) & (df[days_col] > 0)
ValidMask(row) == GtZero(row.capital) /\ GtZero(row.days)

\* faulty variant: the plain mean of the days instead of the capital-weighted mean
calculate_unweighted_average_days(df) ==
    LET valid_df == SelectSeq(df, ValidMask)
    IN  IF valid_df = <<>> THEN Zero
        ELSE Rat(SeriesSum(Column(valid_df, "days")), Len(valid_df))

\* faulty variant: the weighted sum is divided by the number of loans
calculate_weighted_days_per_loan(df) ==
    LET valid_df == SelectSeq(df, ValidMask)
        weighted_sum ==
            SeriesSum([i \in DOMAIN valid_df |->
                          Times(valid_df[i].capital, valid_df[i].days)])
    IN  IF valid_df = <<>> THEN Zero
        ELSE Rat(weighted_sum, Len(valid_df))

calculate_weighted_average_days(df) ==
    LET valid_df == SelectSeq(df, ValidMask)
        total_amount == SeriesSum(Column(valid_df, "capital"))
        weighted_sum ==
            SeriesSum([i \in DOMAIN valid_df |->
                          Times(valid_df[i].capital, valid_df[i].days)])
    IN  IF valid_df = <<>> THEN Zero
        ELSE IF total_amount = 0 THEN Zero
        ELSE Rat(weighted_sum, total_amount)

ZeroMetrics ==
    [portfolio_yield |-> Zero, total_interest |-> Zero, total_capital |-> Zero,
     weighted_avg_days |-> Zero, simple_return |-> Zero]

\* per-loan annualized yield of a valid loan:
\* (realized_interest / loan_amount) * (365 / days_to_release) * 100
interest_yield(row) ==
    RMul(RMul(Rat(row.interest[1], row.capital[1]), Rat(365, row.days[1])),
         Int2Rat(100))

RECURSIVE RSum(_)
RSum(s) == IF s = <<>> THEN Zero ELSE RAdd(Head(s), RSum(Tail(s)))

\* the 'mean' aggregation of interest_yield over the valid loans of a frame
\* (the averaged statistic of the verification script); needs a valid loan
mean_interest_yield(df) ==
    LET released == SelectSeq(df, ValidMask)
    IN  RDiv(RSum([i \in DOMAIN released |-> interest_yield(released[i])]),
             Int2Rat(Len(released)))

\* faulty variant: the aggregate reported as the mean of the per-loan annualized yields
calculate_portfolio_yield_averaged(df) ==
    LET valid_df == SelectSeq(df, ValidMask)
        total_interest == SeriesSum(Column(valid_df, "interest"))
        total_capital == SeriesSum(Column(valid_df, "capital"))
        weighted_avg_days == calculate_weighted_average_days(valid_df)
    IN  IF valid_df = <<>> THEN ZeroMetrics
        ELSE [portfolio_yield |-> mean_interest_yield(valid_df),
              total_interest |-> Int2Rat(total_interest),
              total_capital |-> Int2Rat(total_capital),
              weighted_avg_days |-> weighted_avg_days,
              simple_return |-> RMul(Rat(total_interest, total_capital),
                                     Int2Rat(100))]

calculate_portfolio_yield(df) ==
    LET valid_df == SelectSeq(df, ValidMask)
        total_interest == SeriesSum(Column(valid_df, "interest"))
        total_capital == SeriesSum(Column(valid_df, "capital"))
        weighted_avg_days == calculate_weighted_average_days(valid_df)
        computable == total_capital > 0 /\ RGtZero(weighted_avg_days)
    IN  IF valid_df = <<>> THEN ZeroMetrics
        ELSE [portfolio_yield |->
                  IF computable
                  THEN RMul(RMul(Rat(total_interest, total_capital),
                                 RDiv(Int2Rat(365), weighted_avg_days)),
                            Int2Rat(100))
                  ELSE Zero,
              total_interest |-> Int2Rat(total_interest),
              total_capital |-> Int2Rat(total_capital),
              weighted_avg_days |-> weighted_avg_days,
              simple_return |->
                  IF computable
                  THEN RMul(Rat(total_interest, total_capital), Int2Rat(100))
                  ELSE Zero]

InitYield ==
    /\ yield_df = <<>>
    /\ table = <<>>
    /\ cleared = <<>>
    /\ served = <<>>
    /\ session_state = <<>>
    /\ st_cache = <<>>
    /\ fetches = <<>>
    /\ ticks = <<>>
    /\ now = <<>>
    /\ normalized = <<>>
    /\ example = <<>>
    /\ aging = <<>>
    /\ health = <<>>
    /\ mom = <<>>
    /\ cohort \in Frames(YieldRows, MaxLoans)
    /\ metrics = <<>>
    /\ loans = <<>> /\ realized = <<>> /\ ltv = <<>>
    /\ records = <<>> /\ agg = "sum" /\ pivot = <<>> /\ yoy = <<>>

\* metrics = utils.calculate_portfolio_yield(df)
CalculatePortfolioYield ==
    /\ metrics = <<>>
    /\ metrics' = <<calculate_portfolio_yield(cohort)>>
    /\ UNCHANGED <<cohort, loans, realized, ltv, records, agg, pivot, yoy, mom, health, aging, example, normalized, now, ticks, fetches, st_cache, session_state, served, cleared, table, yield_df>>

NextYield == CalculatePortfolioYield

SpecYield == InitYield /\ [][NextYield]_vars

----------------------------------------------------------------------------
(* Claims about the portfolio yield (checked under SpecYield) *)

RECURSIVE SetSum(_, _)
SetSum(S, f) ==
    IF S = {} THEN 0
    ELSE LET x == CHOOSE y \in S : TRUE IN f[x] + SetSum(S \ {x}, f)

\* the loans of the cohort with loan_amount > 0 and days_to_release > 0
ValidLoans ==
    {i \in DOMAIN cohort :
        /\ cohort[i].capital # NaN /\ cohort[i].capital[1] > 0
        /\ cohort[i].days # NaN /\ cohort[i].days[1] > 0}

SumInterest == SetSum(ValidLoans, [i \in ValidLoans |-> cohort[i].interest[1]])

SumCapital == SetSum(ValidLoans, [i \in ValidLoans |-> cohort[i].capital[1]])

SumCapitalDays ==
    SetSum(ValidLoans,
           [i \in ValidLoans |-> cohort[i].capital[1] * cohort[i].days[1]])

\* C1: for a cohort with at least one valid loan the five returned fields are
\* the sums over the valid loans only: total_interest, total_capital,
\* weighted_avg_days = sum(capital x days) / total_capital, simple_return =
\* total_interest / total_capital x 100, and portfolio_yield =
\* simple_return x 365 / weighted_avg_days.
C1_CohortFormula ==
    (metrics # <<>> /\ ValidLoans # {}) =>
        LET m == metrics[1]
            wad == Rat(SumCapitalDays, SumCapital)
            simple == Rat(SumInterest * 100, SumCapital)
        IN  /\ m.total_interest = Int2Rat(SumInterest)
            /\ m.total_capital = Int2Rat(SumCapital)
            /\ m.weighted_avg_days = wad
            /\ m.simple_return = simple
            /\ m.portfolio_yield = RDiv(RMul(simple, Int2Rat(365)), wad)

\* C1 witness: a computed cohort of two valid loans with different capital and
\* different holding days, and a positive yield
C1_Witness ==
    /\ metrics # <<>>
    /\ Cardinality(ValidLoans) = 2
    /\ cohort[1].capital # cohort[2].capital
    /\ cohort[1].days # cohort[2].days
    /\ RGtZero(metrics[1].portfolio_yield)

\* the holding periods of the valid loans are not all equal
HeterogeneousDays ==
    \E i, j \in ValidLoans : cohort[i].days # cohort[j].days

\* per-loan annualized yield interest/principal x 365/days x 100 of loan i
LoanYield(i) ==
    Rat(cohort[i].interest[1] * 365 * 100,
        cohort[i].capital[1] * cohort[i].days[1])

\* capital x days of loan i
LoanWeight(i) == cohort[i].capital[1] * cohort[i].days[1]

RECURSIVE RSetSum(_, _)
RSetSum(S, f) ==
    IF S = {} THEN Zero
    ELSE LET x == CHOOSE y \in S : TRUE IN RAdd(f[x], RSetSum(S \ {x}, f))

SumYields == RSetSum(ValidLoans, [i \in ValidLoans |-> LoanYield(i)])

SumWeightedYields ==
    RSetSum(ValidLoans,
            [i \in ValidLoans |-> RMul(Int2Rat(LoanWeight(i)), LoanYield(i))])

MeanLoanYield == RDiv(SumYields, Int2Rat(Cardinality(ValidLoans)))

\* C2 as stated: whenever the holding periods of the valid loans are not all
\* equal, portfolio_yield differs from the arithmetic mean of the per-loan
\* annualized yields.
C2_AlwaysDiffers ==
    (metrics # <<>> /\ ValidLoans # {} /\ HeterogeneousDays) =>
        metrics[1].portfolio_yield # mean_interest_yield(cohort)

\* C2 amended: portfolio_yield is the capital-x-days weighted mean of the
\* per-loan annualized yields, so it differs from their arithmetic mean
\* exactly when the weighted and the plain mean of those yields differ
\* (count x sum(weight x yield) # sum(weight) x sum(yield)).
C2_WeightedMeanOfYields ==
    (metrics # <<>> /\ ValidLoans # {}) =>
        /\ metrics[1].portfolio_yield =
               RDiv(SumWeightedYields, Int2Rat(SumCapitalDays))
        /\ mean_interest_yield(cohort) = MeanLoanYield
        /\ (metrics[1].portfolio_yield # mean_interest_yield(cohort)) <=>
               (RMul(Int2Rat(Cardinality(ValidLoans)), SumWeightedYields)
                    # RMul(Int2Rat(SumCapitalDays), SumYields))

\* C2 witness: a computed cohort with heterogeneous holding periods whose
\* portfolio yield is below the mean of the per-loan yields
C2_Witness ==
    /\ metrics # <<>>
    /\ ValidLoans # {}
    /\ HeterogeneousDays
    /\ RLess(metrics[1].portfolio_yield, mean_interest_yield(cohort))

\* the cohort with every loan with loan_amount <= 0 or days_to_release <= 0
\* (or either missing) removed
Excluded(row) ==
    \/ row.capital = NaN \/ row.days = NaN
    \/ row.capital[1] <= 0 \/ row.days[1] <= 0

CohortWithoutExcluded == SelectSeq(cohort, LAMBDA row : ~Excluded(row))

\* C3: calculate_portfolio_yield returns on a cohort the same five fields as
\* on that cohort with every excluded loan removed.
C3_ExcludedNotZeroFilled ==
    metrics # <<>> =>
        metrics[1] = calculate_portfolio_yield(CohortWithoutExcluded)

\* C3 witness: a computed cohort of one valid loan and one excluded loan that
\* carries interest and capital
C3_Witness ==
    /\ metrics # <<>>
    /\ ValidLoans # {}
    /\ \E i \in DOMAIN cohort :
           /\ Excluded(cohort[i])
           /\ cohort[i].interest[1] > 0
           /\ GtZero(cohort[i].capital)

\* C4: for a degenerate cohort (empty, no valid loan, or total capital of the
\* valid loans 0) all five fields are 0.
C4_DegenerateZeros ==
    (metrics # <<>> /\ (cohort = <<>> \/ ValidLoans = {} \/ SumCapital = 0)) =>
        /\ metrics[1].portfolio_yield = Zero
        /\ metrics[1].total_interest = Zero
        /\ metrics[1].total_capital = Zero
        /\ metrics[1].weighted_avg_days = Zero
        /\ metrics[1].simple_return = Zero

\* C4 witness: a computed non-empty cohort without a valid loan whose loans
\* carry interest
C4_Witness ==
    /\ metrics # <<>>
    /\ cohort # <<>>
    /\ ValidLoans = {}
    /\ \E i \in DOMAIN cohort : cohort[i].interest[1] > 0 /\ GtZero(cohort[i].capital)

----------------------------------------------------------------------------
(* Realized interest: db.calculate_realized_interest *)

DepositedValues == {-1, 0, 2}

InterestAmountValues == {0, 5}

InterestRows == [released : {"TRUE", "FALSE"},
                 interest_deposited_till_date : Optional(DepositedValues),
                 interest_amount : {Num(v) : v \in InterestAmountValues}]

\* faulty variant: the fallback forgets the missing (NULL) deposits
legacy_mask_without_isna(row) ==
    /\ row.released = "TRUE"
    /\ LeZero(row.interest_deposited_till_date)

\* (df['released'] == 'TRUE') & (deposited.isna() | (deposited <= 0))
legacy_mask(row) ==
    /\ row.released = "TRUE"
    /\ \/ isna(row.interest_deposited_till_date)
       \/ LeZero(row.interest_deposited_till_date)

\* realized = deposited.copy(); realized.loc[legacy_mask] = interest_amount
calculate_realized_interest(df) ==
    [i \in DOMAIN df |->
        IF legacy_mask(df[i])
        THEN df[i].interest_amount
        ELSE Column(df, "interest_deposited_till_date")[i]]

\* faulty variant: the result is a view of the frame's column
SeriesCopyAsView(series) == [values |-> series, view |-> TRUE]

\* Series.copy(): a new Series that shares no data with the frame
SeriesCopy(series) == [values |-> series, view |-> FALSE]

\* the frame after the call: realized.loc[legacy_mask] = ... writes to the
\* Series named realized, and to the frame's column if realized is a view
\* of it
FrameAfterRealizedInterest(df) ==
    LET realized_series == SeriesCopy(Column(df, "interest_deposited_till_date"))
    IN  IF realized_series.view
        THEN [i \in DOMAIN df |->
                 [df[i] EXCEPT !.interest_deposited_till_date =
                                   calculate_realized_interest(df)[i]]]
        ELSE df

InitInterest ==
    /\ yield_df = <<>>
    /\ table = <<>>
    /\ cleared = <<>>
    /\ served = <<>>
    /\ session_state = <<>>
    /\ st_cache = <<>>
    /\ fetches = <<>>
    /\ ticks = <<>>
    /\ now = <<>>
    /\ normalized = <<>>
    /\ example = <<>>
    /\ aging = <<>>
    /\ health = <<>>
    /\ mom = <<>>
    /\ loans \in Frames(InterestRows, MaxRows)
    /\ realized = <<>> /\ ltv = <<>>
    /\ cohort = <<>> /\ metrics = <<>>
    /\ records = <<>> /\ agg = "sum" /\ pivot = <<>> /\ yoy = <<>>

\* df['realized_interest'] = calculate_realized_interest(df), any number of
\* times on the same frame
CalculateRealizedInterest ==
    /\ realized' = <<calculate_realized_interest(loans)>>
    /\ loans' = FrameAfterRealizedInterest(loans)
    /\ UNCHANGED <<ltv, cohort, metrics, records, agg, pivot, yoy, mom, health, aging, example, normalized, now, ticks, fetches, st_cache, session_state, served, cleared, table, yield_df>>

NextInterest == CalculateRealizedInterest

SpecInterest == InitInterest /\ [][NextInterest]_vars

\* C5: the result is interest_deposited_till_date when that is > 0, released
\* or not, and interest_amount when the loan is released and the deposit is
\* missing or <= 0.
C5_DepositedOrFallback ==
    realized # <<>> =>
        \A i \in DOMAIN loans :
            LET dep == loans[i].interest_deposited_till_date
            IN  /\ (dep # NaN /\ dep[1] > 0) => realized[1][i] = dep
                /\ (loans[i].released = "TRUE" /\ (dep = NaN \/ dep[1] <= 0))
                       => realized[1][i] = loans[i].interest_amount

\* C5 witness: a computed frame with a released loan without a recorded
\* deposit that gets its contracted interest, and an active loan with a
\* deposit that gets the deposit
C5_Witness ==
    /\ realized # <<>>
    /\ \E i \in DOMAIN loans :
           /\ loans[i].released = "TRUE"
           /\ loans[i].interest_deposited_till_date = NaN
           /\ realized[1][i] = Num(5)
    /\ \E i \in DOMAIN loans :
           /\ loans[i].released = "FALSE"
           /\ realized[1][i] = Num(2)

\* C6: an active loan (not released) whose deposit is missing or <= 0 gets
\* exactly 0.
C6_ActiveNoDepositIsZero ==
    realized # <<>> =>
        \A i \in DOMAIN loans :
            LET dep == loans[i].interest_deposited_till_date
            IN  (loans[i].released = "FALSE" /\ (dep = NaN \/ dep[1] <= 0))
                    => realized[1][i] = Num(0)

----------------------------------------------------------------------------
(* Loan-to-value: db.calculate_correct_ltv *)

LoanAmountValues == {1, 3}

NetWtValues == {-1, 0, 2}

GoldRateValues == {0, 3}

PurityValues == {50, 100}

LtvRows == [loan_amount : {Num(v) : v \in LoanAmountValues},
            net_wt : Optional(NetWtValues),
            gold_rate : {Num(v) : v \in GoldRateValues},
            purity : {Num(v) : v \in PurityValues}]

\* df['net_wt'] * df['gold_rate'] * (df['purity'] / 100): a rational, or
\* missing when an operand is missing
collateral_value(row) ==
    IF isna(row.net_wt) \/ isna(row.gold_rate) \/ isna(row.purity)
    THEN NaN
    ELSE Num(RMul(Int2Rat(row.net_wt[1] * row.gold_rate[1]),
                  Rat(row.purity[1], 100)))

\* faulty variant: only a zero collateral value is guarded
valid_mask_nonzero(cv) == IF isna(cv) THEN FALSE ELSE cv[1][1] # 0

\* valid_mask = collateral_value > 0
valid_mask(cv) == IF isna(cv) THEN FALSE ELSE RGtZero(cv[1])

\* ltv = 0.0; ltv.loc[valid_mask] = (loan_amount / collateral_value) * 100
calculate_correct_ltv(df) ==
    [i \in DOMAIN df |->
        IF valid_mask(collateral_value(df[i]))
        THEN RMul(RDiv(Int2Rat(df[i].loan_amount[1]),
                       collateral_value(df[i])[1]),
                  Int2Rat(100))
        ELSE Zero]

InitLtv ==
    /\ yield_df = <<>>
    /\ table = <<>>
    /\ cleared = <<>>
    /\ served = <<>>
    /\ session_state = <<>>
    /\ st_cache = <<>>
    /\ fetches = <<>>
    /\ ticks = <<>>
    /\ now = <<>>
    /\ normalized = <<>>
    /\ example = <<>>
    /\ aging = <<>>
    /\ health = <<>>
    /\ mom = <<>>
    /\ loans \in Frames(LtvRows, MaxRows)
    /\ realized = <<>> /\ ltv = <<>>
    /\ cohort = <<>> /\ metrics = <<>>
    /\ records = <<>> /\ agg = "sum" /\ pivot = <<>> /\ yoy = <<>>

\* df['ltv_correct'] = calculate_correct_ltv(df)
CalculateCorrectLtv ==
    /\ ltv = <<>>
    /\ ltv' = <<calculate_correct_ltv(loans)>>
    /\ UNCHANGED <<loans, realized, cohort, metrics, records, agg, pivot, yoy, mom, health, aging, example, normalized, now, ticks, fetches, st_cache, session_state, served, cleared, table, yield_df>>

NextLtv == CalculateCorrectLtv

SpecLtv == InitLtv /\ [][NextLtv]_vars

\* net_wt x gold_rate x purity of loan i (100 times its collateral value)
Collateral100(i) ==
    loans[i].net_wt[1] * loans[i].gold_rate[1] * loans[i].purity[1]

\* C7: the LTV is 0 for every loan whose collateral value is <= 0, in
\* particular whenever net_wt or gold_rate is 0, and
\* loan_amount / collateral_value x 100 when the collateral value is > 0.
C7_LtvGuarded ==
    ltv # <<>> =>
        \A i \in DOMAIN loans :
            loans[i].net_wt # NaN =>
                /\ Collateral100(i) <= 0 => ltv[1][i] = Zero
                /\ (loans[i].net_wt[1] = 0 \/ loans[i].gold_rate[1] = 0)
                       => ltv[1][i] = Zero
                /\ Collateral100(i) > 0 =>
                       ltv[1][i] = Rat(loans[i].loan_amount[1] * 100 * 100,
                                       Collateral100(i))

\* C7 witness: a computed frame with a loan of negative collateral value
\* (LTV 0) and a loan of positive collateral value and positive LTV
C7_Witness ==
    /\ ltv # <<>>
    /\ \E i \in DOMAIN loans :
           /\ loans[i].net_wt # NaN
           /\ Collateral100(i) < 0
           /\ ltv[1][i] = Zero
    /\ \E i \in DOMAIN loans :
           /\ loans[i].net_wt # NaN
           /\ Collateral100(i) > 0
           /\ RGtZero(ltv[1][i])

----------------------------------------------------------------------------
(* Monthly pivots: utils.create_monthly_pivot and its helpers.  A frame is  *)
(* [raised, index, columns, data]: the row labels, the column labels and    *)
(* data[row][column]; raised tells that the call ended in an exception.     *)

\* calendar.month_abbr[1..12]
month_abbr == <<"Jan", "Feb", "Mar", "Apr", "May", "Jun",
                "Jul", "Aug", "Sep", "Oct", "Nov", "Dec">>

\* the month names in the sort order of a pivot_table index (alphabetical)
SortedMonthNames == <<"Apr", "Aug", "Dec", "Feb", "Jan", "Jul",
                      "Jun", "Mar", "May", "Nov", "Oct", "Sep">>

\* the year labels in ascending order
SortedYears == <<"2022", "2023", "2024", "2025">>

DataYears == {SortedYears[k] : k \in 1..NumYears}

DataMonths == {1, 2, 6, 12}

ValueValues == {-1, 2}

\* a record: its date (missing, or a year and a month) and the value column
PivotRows == [date : {NaN} \cup {Num([year |-> y, month |-> m]) :
                                      y \in DataYears, m \in DataMonths},
              value : {Num(v) : v \in ValueValues}]

SeqToSet(s) == {s[i] : i \in DOMAIN s}

\* the year and month_name columns added to a copy of the frame; a missing
\* date (NaT) gives a missing year and the month_name None
add_date_columns(df) ==
    [i \in DOMAIN df |->
        [date |-> df[i].date,
         value |-> df[i].value,
         year |-> IF isna(df[i].date) THEN NaN ELSE Num(df[i].date[1].year),
         month_name |-> IF isna(df[i].date) THEN NaN
                        ELSE Num(month_abbr[df[i].date[1].month])]]

\* the aggregation of one group of values: 'sum' or 'count' (both skip NaN)
Aggregate(values, aggfunc) ==
    IF aggfunc = "sum" THEN SeriesSum(values)
    ELSE Cardinality({i \in DOMAIN values : ~isna(values[i])})

\* DataFrame.pivot_table(index='month_name', columns='year', values=...,
\* aggfunc=..., fill_value=0): rows with a missing key are dropped, the
\* labels are the sorted keys that occur, a cell without rows is fill_value
pivot_table(df, aggfunc) ==
    LET keyed == SelectSeq(df, LAMBDA r : ~isna(r.month_name) /\ ~isna(r.year))
        names == {keyed[i].month_name[1] : i \in DOMAIN keyed}
        years == {keyed[i].year[1] : i \in DOMAIN keyed}
        group(m, y) ==
            SelectSeq(keyed, LAMBDA r : r.month_name[1] = m /\ r.year[1] = y)
    IN  [raised |-> FALSE,
         index |-> SelectSeq(SortedMonthNames, LAMBDA m : m \in names),
         columns |-> SelectSeq(SortedYears, LAMBDA y : y \in years),
         data |-> [m \in names |-> [y \in years |->
                      IF group(m, y) = <<>> THEN 0
                      ELSE Aggregate(Column(group(m, y), "value"), aggfunc)]]]

\* faulty variant: the rows stay the months that occur in the data
reindex_by_months_absent(p) == p

\* pivot.reindex(index=month_order, fill_value=0)
reindex_by_months(p) ==
    [raised |-> FALSE,
     index |-> month_abbr,
     columns |-> p.columns,
     data |-> [m \in SeqToSet(month_abbr) |->
                  IF m \in SeqToSet(p.index) THEN p.data[m]
                  ELSE [c \in SeqToSet(p.columns) |-> 0]]]

\* the sum of data[r][c] over the labels of a sequence
RECURSIVE SumOver(_, _)
SumOver(labels, cell) ==
    IF labels = <<>> THEN 0
    ELSE cell[Head(labels)] + SumOver(Tail(labels), cell)

\* the frame of an exception
Raised == [raised |-> TRUE, index |-> <<>>, columns |-> <<>>, data |-> <<>>]

\* pivot.loc['Total'] = pivot.sum(axis=0): the enlarging assignment raises
\* ValueError on a frame without columns
WithTotalRow(p) ==
    [raised |-> FALSE,
     index |-> Append(p.index, "Total"),
     columns |-> p.columns,
     data |-> [r \in SeqToSet(p.index) \cup {"Total"} |->
                  IF r = "Total"
                  THEN [c \in SeqToSet(p.columns) |->
                           SumOver(p.index, [m \in SeqToSet(p.index) |-> p.data[m][c]])]
                  ELSE p.data[r]]]

\* pivot['Total'] = pivot.sum(axis=1)
WithTotalColumn(p) ==
    [raised |-> FALSE,
     index |-> p.index,
     columns |-> Append(p.columns, "Total"),
     data |-> [r \in SeqToSet(p.index) |->
                  [c \in SeqToSet(p.columns) \cup {"Total"} |->
                      IF c = "Total" THEN SumOver(p.columns, p.data[r])
                      ELSE p.data[r][c]]]]

\* faulty variant: the Total column is added whatever the number of year columns
add_pivot_totals_always(p) ==
    IF p.columns = <<>> THEN Raised
    ELSE WithTotalColumn(WithTotalRow(p))

add_pivot_totals(p) ==
    IF p.columns = <<>> THEN Raised
    ELSE IF Len(p.columns) > 1 THEN WithTotalColumn(WithTotalRow(p))
    ELSE WithTotalRow(p)

\* create_monthly_pivot(df, value_col, date_col, agg_func) with add_totals
\* left at its default True, as every caller does
create_monthly_pivot(df, agg_func) ==
    add_pivot_totals(reindex_by_months(pivot_table(add_date_columns(df), agg_func)))

\* the floats +inf and -inf, as n/0
PosInf == <<1, 0>>

NegInf == <<-1, 0>>

\* one cell of DataFrame.pct_change: cur / prev - 1 in float arithmetic
\* (x/0 is +-inf, 0/0 is NaN)
PctChange(prev, cur) ==
    IF prev = 0
    THEN (IF cur = 0 THEN NaN ELSE IF cur > 0 THEN Num(PosInf) ELSE Num(NegInf))
    ELSE Num(Rat(cur - prev, prev))

\* a float cell times 100
Times100(x) ==
    IF isna(x) \/ x[1] = PosInf \/ x[1] = NegInf THEN x
    ELSE Num(RMul(x[1], Int2Rat(100)))

\* yoy.replace([np.inf, -np.inf], np.nan)
ReplaceInf(x) == IF x = Num(PosInf) \/ x = Num(NegInf) THEN NaN ELSE x

\* pivot.pct_change(axis=1) * 100: each column against the column before it,
\* the first column missing
PctChangeColumns100(p) ==
    [raised |-> FALSE,
     index |-> p.index,
     columns |-> p.columns,
     data |-> [r \in SeqToSet(p.index) |->
                  [c \in SeqToSet(p.columns) |->
                      LET j == CHOOSE k \in DOMAIN p.columns : p.columns[k] = c
                      IN  IF j = 1 THEN NaN
                          ELSE Times100(PctChange(p.data[r][p.columns[j - 1]],
                                                  p.data[r][c]))]]]

\* faulty variant: the infinities are left in the result
calculate_yoy_change_keep_inf(p) == PctChangeColumns100(p)

calculate_yoy_change(p) ==
    LET yoy100 == PctChangeColumns100(p)
    IN  [yoy100 EXCEPT !.data =
            [r \in SeqToSet(p.index) |->
                [c \in SeqToSet(p.columns) |-> ReplaceInf(yoy100.data[r][c])]]]

\* pivot.index != 'Total': the month rows of the frame, in their order
DataRows(p) == SelectSeq(p.index, LAMBDA r : r # "Total")

\* frame.loc[rows].pct_change(axis=0) * 100: each row against the row before
\* it among the selected rows, the first row missing
PctChangeRows100(p, rows) ==
    [raised |-> FALSE,
     index |-> rows,
     columns |-> p.columns,
     data |-> [r \in SeqToSet(rows) |->
                  [c \in SeqToSet(p.columns) |->
                      LET i == CHOOSE k \in DOMAIN rows : rows[k] = r
                      IN  IF i = 1 THEN NaN
                          ELSE Times100(PctChange(p.data[rows[i - 1]][c],
                                                  p.data[r][c]))]]]

\* faulty variant: the Total row is left in the delta chain
calculate_mom_change_with_total(p) ==
    LET mom100 == PctChangeRows100(p, p.index)
    IN  [mom100 EXCEPT !.data =
            [r \in SeqToSet(mom100.index) |->
                [c \in SeqToSet(p.columns) |-> ReplaceInf(mom100.data[r][c])]]]

calculate_mom_change(p) ==
    LET mom100 == PctChangeRows100(p, DataRows(p))
    IN  [mom100 EXCEPT !.data =
            [r \in SeqToSet(mom100.index) |->
                [c \in SeqToSet(p.columns) |-> ReplaceInf(mom100.data[r][c])]]]

InitPivot ==
    /\ yield_df = <<>>
    /\ table = <<>>
    /\ cleared = <<>>
    /\ served = <<>>
    /\ session_state = <<>>
    /\ st_cache = <<>>
    /\ fetches = <<>>
    /\ ticks = <<>>
    /\ now = <<>>
    /\ normalized = <<>>
    /\ example = <<>>
    /\ aging = <<>>
    /\ health = <<>>
    /\ mom = <<>>
    /\ records \in Frames(PivotRows, MaxRecords)
    /\ agg \in {"sum", "count"}
    /\ pivot = <<>> /\ yoy = <<>>
    /\ cohort = <<>> /\ metrics = <<>>
    /\ loans = <<>> /\ realized = <<>> /\ ltv = <<>>

\* pivot = utils.create_monthly_pivot(df, value_col, date_col, agg_func)
CreateMonthlyPivot ==
    /\ pivot = <<>>
    /\ pivot' = <<create_monthly_pivot(records, agg)>>
    /\ UNCHANGED <<records, agg, yoy, cohort, metrics, loans, realized, ltv, mom, health, aging, example, normalized, now, ticks, fetches, st_cache, session_state, served, cleared, table, yield_df>>

\* yoy = utils.calculate_yoy_change(pivot), reached only when
\* create_monthly_pivot returned
CalculateYoyChange ==
    /\ pivot # <<>>
    /\ ~pivot[1].raised
    /\ yoy = <<>>
    /\ yoy' = <<calculate_yoy_change(pivot[1])>>
    /\ UNCHANGED <<records, agg, pivot, cohort, metrics, loans, realized, ltv, mom, health, aging, example, normalized, now, ticks, fetches, st_cache, session_state, served, cleared, table, yield_df>>

\* mom = utils.calculate_mom_change(pivot), reached only when
\* create_monthly_pivot returned
CalculateMomChange ==
    /\ pivot # <<>>
    /\ ~pivot[1].raised
    /\ mom = <<>>
    /\ mom' = <<calculate_mom_change(pivot[1])>>
    /\ UNCHANGED <<records, agg, pivot, yoy, cohort, metrics, loans, realized, ltv, health, aging, example, normalized, now, ticks, fetches, st_cache, session_state, served, cleared, table, yield_df>>

NextPivot == CreateMonthlyPivot \/ CalculateYoyChange \/ CalculateMomChange

SpecPivot == InitPivot /\ [][NextPivot]_vars

----------------------------------------------------------------------------
(* Claims about the monthly pivot (checked under SpecPivot) *)

\* the year columns of a frame: its columns without the synthetic Total
YearColumns(p) == {c \in SeqToSet(p.columns) : c # "Total"}

\* some input record is dated month number m of year y
HasRecord(m, y) ==
    \E i \in DOMAIN records :
        /\ records[i].date # NaN
        /\ records[i].date[1].month = m
        /\ records[i].date[1].year = y

\* the rows of the result are Jan .. Dec in calendar order followed by
\* Total, and every (month, year) cell without an input record is 0
CalendarIndexZeroFilled ==
    /\ ~pivot[1].raised
    /\ pivot[1].index = month_abbr \o <<"Total">>
    /\ \A m \in 1..12 : \A y \in YearColumns(pivot[1]) :
           ~HasRecord(m, y) => pivot[1].data[month_abbr[m]][y] = 0

\* C8: for any non-empty input, whichever months occur in the data, the row
\* index of the result is exactly Jan .. Dec followed by Total and every
\* (month, year) cell with no input record is 0.
C8_CalendarIndex ==
    (pivot # <<>> /\ records # <<>>) => CalendarIndexZeroFilled

\* C8, as far as the code goes: the same for every input with at least one
\* dated record
C8_CalendarIndexOfDatedInput ==
    (pivot # <<>> /\ \E i \in DOMAIN records : records[i].date # NaN)
        => CalendarIndexZeroFilled

\* C9: the Total row of each year column is the sum of its 12 month cells; a
\* Total column exists iff there is more than one year column, and each of
\* its cells, the Total row's included, is the sum of that row over the year
\* columns only.
C9_Totals ==
    (pivot # <<>> /\ ~pivot[1].raised) =>
        LET p == pivot[1]
            months == SeqToSet(month_abbr)
            years == YearColumns(p)
        IN  /\ \A y \in years :
                   p.data["Total"][y] =
                       SetSum(months, [m \in months |-> p.data[m][y]])
            /\ ("Total" \in SeqToSet(p.columns)) <=> (Cardinality(years) > 1)
            /\ "Total" \in SeqToSet(p.columns) =>
                   \A r \in SeqToSet(p.index) :
                       p.data[r]["Total"] =
                           SetSum(years, [y \in years |-> p.data[r][y]])

\* C9 witness: a pivot of two year columns with a Total column and a
\* non-zero grand total in which both years have a non-zero Total
C9_Witness ==
    /\ pivot # <<>>
    /\ ~pivot[1].raised
    /\ Cardinality(YearColumns(pivot[1])) = 2
    /\ "Total" \in SeqToSet(pivot[1].columns)
    /\ \A y \in YearColumns(pivot[1]) : pivot[1].data["Total"][y] # 0
    /\ pivot[1].data["Total"]["Total"] # 0

\* the position of column c in the frame
ColumnPosition(p, c) == CHOOSE k \in DOMAIN p.columns : p.columns[k] = c

C11_MomExcludesTotal ==
    mom # <<>> =>
        LET p == pivot[1] IN
        /\ mom[1].index = month_abbr
        /\ mom[1].columns = p.columns
        /\ \A c \in SeqToSet(p.columns) :
               /\ mom[1].data["Jan"][c] = NaN
               /\ \A k \in 2..12 :
                      LET prev == p.data[month_abbr[k - 1]][c]
                          cur == p.data[month_abbr[k]][c]
                      IN  mom[1].data[month_abbr[k]][c] =
                              IF prev = 0 THEN NaN
                              ELSE Num(Rat(100 * (cur - prev), prev))

\* C11 witness: the month-over-month frame of a pivot that has a Total row
\* with a non-zero Dec cell and a non-zero Total (the step a 13th month
\* would take), next to a defined Jan-to-Feb percentage
C11_Witness ==
    /\ mom # <<>>
    /\ "Total" \in SeqToSet(pivot[1].index)
    /\ \E c \in SeqToSet(pivot[1].columns) :
           /\ pivot[1].data["Dec"][c] # 0
           /\ pivot[1].data["Total"][c] # pivot[1].data["Dec"][c]
           /\ mom[1].data["Feb"][c] # NaN

\* C12: with agg 'sum' and exactly one (dated) input record of value v the
\* pivot has exactly the 12 month rows plus a Total row, the 11 other month
\* rows are 0, the record's month row is v and Total is v.
C12_SingleRecord ==
    (pivot # <<>> /\ agg = "sum" /\ Len(records) = 1 /\ records[1].date # NaN) =>
        LET p == pivot[1]
            v == records[1].value[1]
            y == records[1].date[1].year
            m == month_abbr[records[1].date[1].month]
        IN  /\ ~p.raised
            /\ p.index = month_abbr \o <<"Total">>
            /\ p.columns = <<y>>
            /\ p.data[m][y] = v
            /\ \A r \in SeqToSet(month_abbr) \ {m} : p.data[r][y] = 0
            /\ p.data["Total"][y] = v

\* C12 witness: the pivot of one record dated outside January, agg 'sum'
C12_Witness ==
    /\ pivot # <<>>
    /\ agg = "sum"
    /\ Len(records) = 1
    /\ records[1].date # NaN
    /\ records[1].date[1].month # 1
    /\ ~pivot[1].raised
    /\ pivot[1].data["Total"][records[1].date[1].year] = records[1].value[1]

----------------------------------------------------------------------------
(* Portfolio health score: pages/0_Executive_Dashboard.py *)

LtvGivenValues == {60, 130}

LoanAmountHealthValues == {0, 100}

PendingValues == {0, 1}

\* a row of filtered_df after the page's preprocessing: the numeric columns
\* are coerced and their missing values filled with 0, released is
\* normalized; the two dates are kept as what the code asks of them
HealthRows ==
    [released : {"TRUE", "FALSE"},
     customer_name : {"A"},
     ltv_given : {Num(v) : v \in LtvGivenValues},
     interest_deposited_till_date : {Num(v) : v \in DepositedValues},
     interest_amount : {Num(v) : v \in InterestAmountValues},
     loan_amount : {Num(v) : v \in LoanAmountHealthValues},
     pending_loan_amount : {Num(v) : v \in PendingValues},
     disbursed_since_start : BOOLEAN,
     released_in_window : BOOLEAN]

\* floats that may be nan or +-inf: a - b, a * b and n / d
RSub(a, b) == Rat(a[1] * b[2] - b[1] * a[2], a[2] * b[2])

RAbs(a) == <<Abs(a[1]), a[2]>>

\* numpy float division n / d of two integers-as-floats: 0/0 is nan, x/0 is
\* +-inf
FloatDiv(n, d) ==
    IF d = 0
    THEN (IF n = 0 THEN NaN ELSE IF n > 0 THEN Num(PosInf) ELSE Num(NegInf))
    ELSE Num(Rat(n, d))

\* 100 - x on floats
HundredMinus(x) ==
    IF isna(x) THEN NaN
    ELSE IF x[1] = PosInf THEN Num(NegInf)
    ELSE IF x[1] = NegInf THEN Num(PosInf)
    ELSE Num(RSub(Int2Rat(100), x[1]))

\* Python's max(a, x) with the literal a first: x if x > a, else a (a for nan)
PyMax(a, x) ==
    IF isna(x) THEN Num(Int2Rat(a))
    ELSE IF x[1] = PosInf THEN x
    ELSE IF x[1] = NegInf THEN Num(Int2Rat(a))
    ELSE IF RLess(Int2Rat(a), x[1]) THEN x ELSE Num(Int2Rat(a))

\* Python's min(a, x) with the literal a first: x if x < a, else a (a for nan)
PyMin(a, x) ==
    IF isna(x) THEN Num(Int2Rat(a))
    ELSE IF x[1] = NegInf THEN x
    ELSE IF x[1] = PosInf THEN Num(Int2Rat(a))
    ELSE IF RLess(x[1], Int2Rat(a)) THEN x ELSE Num(Int2Rat(a))

\* Series.mean(): nan for an empty Series
SeriesMean(s) == IF s = <<>> THEN NaN ELSE Num(Rat(SeriesSum(s), Len(s)))

\* filtered_df[filtered_df['released'] == 'FALSE']
ActiveLoans(df) == SelectSeq(df, LAMBDA r : r.released = "FALSE")

ltv_health(df) ==
    LET avg_ltv == SeriesMean(Column(ActiveLoans(df), "ltv_given"))
        deviation == IF isna(avg_ltv) THEN NaN
                     ELSE Num(RMul(RAbs(RSub(Int2Rat(75), avg_ltv[1])), Int2Rat(2)))
    IN  PyMin(100, PyMax(0, HundredMinus(deviation)))

\* (released == 'TRUE') & (interest_deposited_till_date <= 0)
legacy_released_mask(row) ==
    row.released = "TRUE" /\ LeZero(row.interest_deposited_till_date)

total_collected_adjusted(df) ==
    LET total_deposited == SeriesSum(Column(df, "interest_deposited_till_date"))
        legacy_recovered_interest ==
            SeriesSum(Column(SelectSeq(df, legacy_released_mask), "interest_amount"))
    IN  total_deposited + legacy_recovered_interest

\* total_collected_adjusted / (loan_amount.sum() * 0.12) * 100, or 0
collection_efficiency(df) ==
    LET disbursed == SeriesSum(Column(df, "loan_amount"))
    IN  IF disbursed > 0
        THEN Num(Rat(total_collected_adjusted(df) * 100 * 100, disbursed * 12))
        ELSE Num(Zero)

collection_health(df) == PyMin(100, collection_efficiency(df))

\* the series without its element at position i
RemoveAt(s, i) == [k \in 1..(Len(s) - 1) |-> IF k < i THEN s[k] ELSE s[k + 1]]

\* Series.nlargest(n).sum(): the sum of the n largest values of a column
RECURSIVE NLargestSum(_, _)
NLargestSum(s, n) ==
    IF n = 0 \/ s = <<>> THEN 0
    ELSE LET i == CHOOSE k \in DOMAIN s : \A j \in DOMAIN s : s[j][1] <= s[k][1]
         IN  s[i][1] + NLargestSum(RemoveAt(s, i), n - 1)

\* active_df.nlargest(5, 'pending_loan_amount')['pending_loan_amount'].sum()
\*     / active_df['pending_loan_amount'].sum() * 100, or 0 without active loans
top_5_concentration(df) ==
    LET pending == Column(ActiveLoans(df), "pending_loan_amount")
    IN  IF Len(pending) > 0
        THEN Times100(FloatDiv(NLargestSum(pending, 5), SeriesSum(pending)))
        ELSE Num(Zero)

diversification_health(df) ==
    IF Len(ActiveLoans(df)) > 0
    THEN PyMax(0, HundredMinus(top_5_concentration(df)))
    ELSE Num(Int2Rat(100))

\* interest earned since 2020-03-01: for the released loans of the window
\* the higher of interest_amount and the deposit, for the active loans the
\* positive deposits
total_interest(df) ==
    LET released_in_period ==
            SelectSeq(df, LAMBDA r : r.released_in_window /\ r.released = "TRUE")
        legacy_interest ==
            [i \in DOMAIN released_in_period |->
                LET row == released_in_period[i]
                IN  IF row.interest_deposited_till_date[1] > row.interest_amount[1]
                    THEN row.interest_deposited_till_date
                    ELSE row.interest_amount]
        active_with_interest ==
            SelectSeq(df, LAMBDA r : r.released = "FALSE"
                                     /\ GtZero(r.interest_deposited_till_date))
    IN  SeriesSum(legacy_interest)
            + SeriesSum(Column(active_with_interest, "interest_deposited_till_date"))

total_disbursed_since_start(df) ==
    SeriesSum(Column(SelectSeq(df, LAMBDA r : r.disbursed_since_start), "loan_amount"))

\* total_interest / total_disbursed_since_start * 100, or 0
interest_coverage(df) ==
    IF total_disbursed_since_start(df) > 0
    THEN Num(Rat(total_interest(df) * 100, total_disbursed_since_start(df)))
    ELSE Num(Zero)

interest_health(df) ==
    PyMin(100, Num(RMul(interest_coverage(df)[1], Int2Rat(10))))

\* the four sub-scores, their mean and the two intermediate figures shown
\* with them; the scores are never nan or infinite after max and min, so the
\* mean is finite
portfolio_health(df) ==
    LET l == ltv_health(df)
        c == collection_health(df)
        d == diversification_health(df)
        i == interest_health(df)
    IN  [ltv_health |-> l,
         collection_health |-> c,
         diversification_health |-> d,
         interest_health |-> i,
         overall_health |->
             Num(RDiv(RAdd(RAdd(l[1], c[1]), RAdd(d[1], i[1])), Int2Rat(4))),
         top_5_concentration |-> top_5_concentration(df),
         total_collected_adjusted |-> total_collected_adjusted(df)]

\* one loan more than the 5 that nlargest keeps
MaxActive == 6

WidePendingValues == {1, 3}

CustomerNames == {"A", "B"}

\* a portfolio of active loans that differ in customer and pending amount
WideRows ==
    [released : {"FALSE"},
     customer_name : CustomerNames,
     ltv_given : {Num(60)},
     interest_deposited_till_date : {Num(0)},
     interest_amount : {Num(0)},
     loan_amount : {Num(100)},
     pending_loan_amount : {Num(v) : v \in WidePendingValues},
     disbursed_since_start : {TRUE},
     released_in_window : {FALSE}]

InitHealth ==
    /\ yield_df = <<>>
    /\ table = <<>>
    /\ cleared = <<>>
    /\ served = <<>>
    /\ session_state = <<>>
    /\ st_cache = <<>>
    /\ fetches = <<>>
    /\ ticks = <<>>
    /\ now = <<>>
    /\ normalized = <<>>
    /\ example = <<>>
    /\ aging = <<>>
    /\ loans \in Frames(HealthRows, MaxRows) \cup [1..MaxActive -> WideRows]
    /\ health = <<>>
    /\ realized = <<>> /\ ltv = <<>>
    /\ cohort = <<>> /\ metrics = <<>>
    /\ records = <<>> /\ agg = "sum" /\ pivot = <<>> /\ yoy = <<>> /\ mom = <<>>

\* the Portfolio Health Dashboard block of the page, run on filtered_df
HealthScore ==
    /\ health = <<>>
    /\ health' = <<portfolio_health(loans)>>
    /\ UNCHANGED <<loans, realized, ltv, cohort, metrics, records, agg, pivot, yoy, mom, aging, example, normalized, now, ticks, fetches, st_cache, session_state, served, cleared, table, yield_df>>

NextHealth == HealthScore

SpecHealth == InitHealth /\ [][NextHealth]_vars

----------------------------------------------------------------------------
(* Claims about the health score (checked under SpecHealth) *)

\* a float that is a number between 0 and 100
InZeroToHundred(x) ==
    /\ x # NaN /\ x # Num(PosInf) /\ x # Num(NegInf)
    /\ ~RLess(x[1], Zero)
    /\ ~RLess(Int2Rat(100), x[1])

\* C13: for every portfolio (no active loans, zero pending amount, zero
\* disbursed and no loans at all included) each of ltv_health,
\* collection_health, diversification_health and interest_health is a
\* defined number in [0, 100], and so is overall_health, their mean.
C13_SubScoresInRange ==
    health # <<>> =>
        /\ InZeroToHundred(health[1].ltv_health)
        /\ InZeroToHundred(health[1].collection_health)
        /\ InZeroToHundred(health[1].diversification_health)
        /\ InZeroToHundred(health[1].interest_health)
        /\ InZeroToHundred(health[1].overall_health)

\* C14: for every portfolio collected_adjusted equals the sum over all loans
\* of calculate_realized_interest.
C14_CollectedIsRealized ==
    health # <<>> =>
        health[1].total_collected_adjusted
            = SeriesSum(calculate_realized_interest(loans))

\* the customers with an active loan, and the pending amount of each
ActiveCustomers == {r.customer_name : r \in SeqToSet(ActiveLoans(loans))}

CustomerPending(c) ==
    SeriesSum(Column(SelectSeq(ActiveLoans(loans), LAMBDA r : r.customer_name = c),
                     "pending_loan_amount"))

\* the summed pending amount of the 5 customers with the largest totals
Top5CustomerPending ==
    LET n == IF Cardinality(ActiveCustomers) < 5
             THEN Cardinality(ActiveCustomers) ELSE 5
        picks == {S \in SUBSET ActiveCustomers : Cardinality(S) = n}
        total(S) == SetSum(S, [c \in S |-> CustomerPending(c)])
        best == CHOOSE S \in picks : \A T \in picks : total(T) <= total(S)
    IN  total(best)

\* C15: top5_concentration_pct is the summed pending amount of the 5 active
\* customers with the largest total pending amount (the active loans of a
\* customer added together) divided by the pending amount of all active
\* loans, times 100, and diversification_health is 100 minus that value.
C15_Top5PerCustomer ==
    LET total == SeriesSum(Column(ActiveLoans(loans), "pending_loan_amount"))
    IN  (health # <<>> /\ total > 0) =>
            /\ health[1].top_5_concentration
                   = Num(Rat(100 * Top5CustomerPending, total))
            /\ health[1].diversification_health
                   = HundredMinus(health[1].top_5_concentration)

----------------------------------------------------------------------------
(* Aged items alert: pages/0_Executive_Dashboard.py and test_aged_items.py *)

CustomerTypes == {"Private", "Vyapari", "Other"}

DaysSinceValues == {100, 365, 366, 730, 731}

AgedLoanAmountValues == {50, 95}

\* a row of filtered_df: the whole days between now and the disbursement
\* date (missing for a missing date) stand for the date itself
AgedRows ==
    [released : {"TRUE", "FALSE"},
     customer_type : CustomerTypes,
     days_since_disbursement : Optional(DaysSinceValues),
     loan_amount : {Num(v) : v \in AgedLoanAmountValues},
     net_wt : {Num(1)},
     gold_rate : {Num(100)},
     purity : {Num(100)}]

\* faulty variant: released loans are analysed too
AllIndex(df) == DOMAIN df

\* the positions of the rows of filtered_df with released == 'FALSE'
ActiveIndex(df) == {i \in DOMAIN df : df[i].released = "FALSE"}

\* days_since_disbursement / 30.44
months_since_disbursement(days) ==
    IF isna(days) THEN NaN ELSE Num(Rat(days[1] * 25, 761))

\* faulty variant: the accrual is added to the equity
equity_remaining_plus(ltv_correct, months) ==
    IF isna(months) THEN NaN
    ELSE Num(RSub(Int2Rat(100), RSub(ltv_correct, RMul(Rat(5, 4), months[1]))))

\* 100 - (ltv_correct + 1.25 * months_since_disbursement)
equity_remaining(ltv_correct, months) ==
    IF isna(months) THEN NaN
    ELSE Num(RSub(Int2Rat(100), RAdd(ltv_correct, RMul(Rat(5, 4), months[1]))))

\* faulty variant: only the first day past the threshold counts
DaysJustPast(days, n) == IF isna(days) THEN FALSE ELSE days[1] = n + 1

\* pandas comparison `days > n`: False for a missing value
DaysGreater(days, n) == IF isna(days) THEN FALSE ELSE days[1] > n

\* pandas comparison `equity_remaining < 1.25`: False for a missing value
LessThanAccrual(equity) == IF isna(equity) THEN FALSE ELSE RLess(equity[1], Rat(5, 4))

\* the Aged Items Alert block: the active loans (by their position in
\* filtered_df), their equity_remaining and the three selections; without
\* active loans nothing is selected.  calculate_correct_ltv is row-wise, so
\* its value for an active loan is the same on the whole frame
aged_items(df) ==
    LET active == ActiveIndex(df)
        ltv_correct == calculate_correct_ltv(df)
        equity == [i \in active |->
                      equity_remaining(
                          ltv_correct[i],
                          months_since_disbursement(df[i].days_since_disbursement))]
    IN  [index |-> active,
         equity_remaining |-> equity,
         private_aged |->
             {i \in active : /\ df[i].customer_type = "Private"
                             /\ DaysGreater(df[i].days_since_disbursement, 365)},
         vyapari_aged |->
             {i \in active : /\ df[i].customer_type = "Vyapari"
                             /\ DaysGreater(df[i].days_since_disbursement, 730)},
         payment_overdue |-> {i \in active : LessThanAccrual(equity[i])}]

ExampleLtvValues == {90, 95, 100}

ExampleMonthsValues == {0, 11, 12}

\* a run of the page on filtered_df, alone or (on a frame of at most one
\* loan) next to the validation of the documented example on an LTV and a
\* number of months
InitAging ==
    /\ yield_df = <<>>
    /\ table = <<>>
    /\ cleared = <<>>
    /\ served = <<>>
    /\ session_state = <<>>
    /\ st_cache = <<>>
    /\ fetches = <<>>
    /\ ticks = <<>>
    /\ now = <<>>
    /\ normalized = <<>>
    /\ \/ /\ loans \in Frames(AgedRows, MaxRows)
          /\ example = <<>>
       \/ /\ loans \in Frames(AgedRows, 1)
          /\ example \in [ltv : ExampleLtvValues,
                          months : ExampleMonthsValues,
                          equity_remaining : {NaN}]
    /\ aging = <<>>
    /\ health = <<>> /\ realized = <<>> /\ ltv = <<>>
    /\ cohort = <<>> /\ metrics = <<>>
    /\ records = <<>> /\ agg = "sum" /\ pivot = <<>> /\ yoy = <<>> /\ mom = <<>>

\* the page computes the aged items of filtered_df
AgedItems ==
    /\ aging = <<>>
    /\ aging' = <<aged_items(loans)>>
    /\ UNCHANGED <<loans, example, health, realized, ltv, cohort, metrics, records, agg, pivot, yoy, mom, normalized, now, ticks, fetches, st_cache, session_state, served, cleared, table, yield_df>>

\* test_payment_overdue_example: equity_remaining = 100 - (ltv + 1.25 * months)
PaymentOverdueExample ==
    /\ example # <<>>
    /\ example.equity_remaining = NaN
    /\ example' = [example EXCEPT !.equity_remaining =
                      equity_remaining(Int2Rat(example.ltv),
                                       Num(Int2Rat(example.months)))]
    /\ UNCHANGED <<loans, aging, health, realized, ltv, cohort, metrics, records, agg, pivot, yoy, mom, normalized, now, ticks, fetches, st_cache, session_state, served, cleared, table, yield_df>>

NextAging == AgedItems \/ PaymentOverdueExample

SpecAging == InitAging /\ [][NextAging]_vars

----------------------------------------------------------------------------
(* Claims about the aged items (checked under SpecAging) *)

\* the loans selected as aged for their segment
SegmentAged == aging[1].private_aged \cup aging[1].vyapari_aged

\* loan i is past the threshold of its segment: Private and more than 365
\* days, or Vyapari and more than 730 days since disbursement
PastThreshold(i) ==
    /\ loans[i].days_since_disbursement # NaN
    /\ \/ /\ loans[i].customer_type = "Private"
          /\ loans[i].days_since_disbursement[1] > 365
       \/ /\ loans[i].customer_type = "Vyapari"
          /\ loans[i].days_since_disbursement[1] > 730

\* C16: flags are produced only for active loans (released = 'FALSE'); an
\* active loan is segment-aged iff it is Private with more than 365 days or
\* Vyapari with more than 730 days since disbursement, so no released loan
\* is flagged and a loan exactly at its threshold is not flagged.
C16_AgingOnlyActive ==
    aging # <<>> =>
        /\ \A i \in DOMAIN loans :
               loans[i].released # "FALSE" =>
                   /\ i \notin SegmentAged
                   /\ i \notin aging[1].payment_overdue
                   /\ i \notin aging[1].index
        /\ \A i \in DOMAIN loans :
               loans[i].released = "FALSE" =>
                   /\ i \in SegmentAged <=> PastThreshold(i)
                   /\ (/\ loans[i].customer_type = "Private"
                       /\ loans[i].days_since_disbursement = Num(365))
                          => i \notin SegmentAged
                   /\ (/\ loans[i].customer_type = "Vyapari"
                       /\ loans[i].days_since_disbursement = Num(730))
                          => i \notin SegmentAged

\* C16 witness: a released loan past its threshold that carries no flag,
\* next to an active Private loan one day past 365 that is segment-aged
C16_Witness ==
    /\ aging # <<>>
    /\ \E i \in DOMAIN loans :
           /\ loans[i].released = "TRUE"
           /\ PastThreshold(i)
           /\ i \notin SegmentAged
    /\ \E i \in DOMAIN loans :
           /\ loans[i].released = "FALSE"
           /\ loans[i].customer_type = "Private"
           /\ loans[i].days_since_disbursement = Num(366)
           /\ i \in aging[1].private_aged

\* 100 - ltv - 1.25 x days / 30.44 of loan i, as 100 - ltv - 125 days / 3044
ExpectedEquity(i) ==
    RSub(RSub(Int2Rat(100), calculate_correct_ltv(loans)[i]),
         Rat(125 * loans[i].days_since_disbursement[1], 3044))

\* C17: for every active loan equity_remaining = 100 - (ltv + 1.25 x
\* days_active / 30.44) (missing when the days are missing) and the loan is
\* payment-overdue iff equity_remaining < 1.25, negative values included; for
\* ltv = 95 and months = 11 the value is exactly -8.75.
C17_EquityRemaining ==
    /\ aging # <<>> =>
           \A i \in DOMAIN loans :
               loans[i].released = "FALSE" =>
                   IF loans[i].days_since_disbursement = NaN
                   THEN /\ aging[1].equity_remaining[i] = NaN
                        /\ i \notin aging[1].payment_overdue
                   ELSE /\ aging[1].equity_remaining[i] = Num(ExpectedEquity(i))
                        /\ i \in aging[1].payment_overdue
                               <=> RLess(ExpectedEquity(i), Rat(5, 4))
    /\ (/\ example # <<>>
        /\ example.equity_remaining # NaN
        /\ example.ltv = 95
        /\ example.months = 11)
           => example.equity_remaining = Num(Rat(-35, 4))

\* C17 witness: an active loan with negative equity_remaining that is
\* payment-overdue, and the documented example evaluated to -8.75
C17_Witness ==
    /\ aging # <<>>
    /\ \E i \in aging[1].payment_overdue :
           /\ loans[i].released = "FALSE"
           /\ RLess(aging[1].equity_remaining[i][1], Zero)
    /\ example # <<>>
    /\ example.ltv = 95
    /\ example.months = 11
    /\ example.equity_remaining = Num(Rat(-35, 4))

----------------------------------------------------------------------------
(* Normalization of the legacy encodings: utils.normalize_customer_data.   *)
(* A Python string is the sequence of its characters; a cell of an object  *)
(* column is [kind, chars, bool]: a str, a native bool or None.            *)

LowerLetters == <<"a", "e", "f", "i", "l", "p", "r", "s", "t", "u", "v", "y">>

UpperLetters == <<"A", "E", "F", "I", "L", "P", "R", "S", "T", "U", "V", "Y">>

IsLower(c) == \E k \in DOMAIN LowerLetters : LowerLetters[k] = c

IsUpper(c) == \E k \in DOMAIN UpperLetters : UpperLetters[k] = c

\* str.upper() and str.lower() of one character
UpperChar(c) ==
    IF IsLower(c) THEN UpperLetters[CHOOSE k \in DOMAIN LowerLetters : LowerLetters[k] = c]
    ELSE c

LowerChar(c) ==
    IF IsUpper(c) THEN LowerLetters[CHOOSE k \in DOMAIN UpperLetters : UpperLetters[k] = c]
    ELSE c

\* str.upper()
upper(chars) == [k \in DOMAIN chars |-> UpperChar(chars[k])]

\* faulty variant: the case of every character is swapped
swapcase(chars) ==
    [k \in DOMAIN chars |->
        IF IsLower(chars[k]) THEN UpperChar(chars[k]) ELSE LowerChar(chars[k])]

\* str.title(): a cased character is upper-cased after an uncased one (or
\* at the start) and lower-cased after a cased one
title(chars) ==
    [k \in DOMAIN chars |->
        IF k > 1 /\ (IsLower(chars[k - 1]) \/ IsUpper(chars[k - 1]))
        THEN LowerChar(chars[k])
        ELSE UpperChar(chars[k])]

Str(chars) == [kind |-> "str", chars |-> chars, bool |-> FALSE]

Bool(b) == [kind |-> "bool", chars |-> <<>>, bool |-> b]

None == [kind |-> "none", chars |-> <<>>, bool |-> FALSE]

\* spellings of the two segment names and of the two flag values
TypeSpellings ==
    {<<"p", "r", "i", "v", "a", "t", "e">>, <<"P", "R", "I", "V", "A", "T", "E">>,
     <<"p", "R", "i", "V", "a", "T", "e">>,
     <<"v", "y", "a", "p", "a", "r", "i">>, <<"V", "Y", "A", "P", "A", "R", "I">>,
     <<"V", "y", "A", "p", "A", "r", "I">>}

FlagSpellings ==
    {<<"t", "r", "u", "e">>, <<"T", "r", "u", "e">>, <<"T", "R", "U", "E">>,
     <<"t", "R", "u", "E">>,
     <<"f", "a", "l", "s", "e">>, <<"F", "a", "l", "s", "e">>,
     <<"F", "A", "L", "S", "E">>, <<"f", "A", "l", "S", "e">>}

\* a row of the loan table as loaded: the segment name in some spelling,
\* the released flag as a string in some spelling, a native bool or None
LegacyRows ==
    [customer_type : {Str(w) : w \in TypeSpellings},
     released : {Str(w) : w \in FlagSpellings} \cup {Bool(TRUE), Bool(FALSE), None}]

\* faulty variant: a string flag is kept as it is spelled
normalize_released_verbatim(x) ==
    IF x.kind = "str" THEN x
    ELSE IF x.kind = "bool" /\ x.bool THEN Str(<<"T", "R", "U", "E">>)
    ELSE Str(<<"F", "A", "L", "S", "E">>)

\* lambda x: str(x).upper() if isinstance(x, str)
\*           else ('TRUE' if x is True else 'FALSE')
normalize_released(x) ==
    IF x.kind = "str" THEN Str(upper(x.chars))
    ELSE IF x.kind = "bool" /\ x.bool THEN Str(<<"T", "R", "U", "E">>)
    ELSE Str(<<"F", "A", "L", "S", "E">>)

\* df['customer_type'].str.title(): None stays missing
normalize_customer_type(x) == IF x.kind = "str" THEN Str(title(x.chars)) ELSE None

\* the frame after the call: the function assigns both columns of df itself
\* and returns it
normalize_customer_data(df) ==
    [i \in DOMAIN df |->
        [customer_type |-> normalize_customer_type(df[i].customer_type),
         released |-> normalize_released(df[i].released)]]

InitNormalize ==
    /\ yield_df = <<>>
    /\ table = <<>>
    /\ cleared = <<>>
    /\ served = <<>>
    /\ session_state = <<>>
    /\ st_cache = <<>>
    /\ fetches = <<>>
    /\ ticks = <<>>
    /\ now = <<>>
    /\ loans \in Frames(LegacyRows, MaxRows)
    /\ normalized = <<>>
    /\ aging = <<>> /\ example = <<>>
    /\ health = <<>> /\ realized = <<>> /\ ltv = <<>>
    /\ cohort = <<>> /\ metrics = <<>>
    /\ records = <<>> /\ agg = "sum" /\ pivot = <<>> /\ yoy = <<>> /\ mom = <<>>

\* loan_df = utils.normalize_customer_data(loan_df); loans keeps the frame
\* as it was handed in
NormalizeCustomerData ==
    /\ normalized = <<>>
    /\ normalized' = <<normalize_customer_data(loans)>>
    /\ UNCHANGED <<loans, aging, example, health, realized, ltv, cohort, metrics, records, agg, pivot, yoy, mom, now, ticks, fetches, st_cache, session_state, served, cleared, table, yield_df>>

NextNormalize == NormalizeCustomerData

SpecNormalize == InitNormalize /\ [][NextNormalize]_vars

----------------------------------------------------------------------------
(* Claims about the normalization (checked under SpecNormalize) *)

\* the spelling of a word with every letter in lower case
LowerCased(chars) == [k \in DOMAIN chars |-> LowerChar(chars[k])]

\* the cell is the name (given in lower case) in some mix of cases
IsCaseVariant(x, name) == x.kind = "str" /\ LowerCased(x.chars) = name

Private == Str(<<"P", "r", "i", "v", "a", "t", "e">>)

Vyapari == Str(<<"V", "y", "a", "p", "a", "r", "i">>)

TrueFlag == Str(<<"T", "R", "U", "E">>)

FalseFlag == Str(<<"F", "A", "L", "S", "E">>)

\* C18: after normalize_customer_data every customer_type given as a case
\* variant of Private or Vyapari is exactly 'Private' or 'Vyapari', and
\* every released value (a mixed-case string, a native boolean or a missing
\* value) is exactly 'TRUE' or 'FALSE', a true encoding giving 'TRUE' and a
\* false encoding 'FALSE'.
C18_Normalized ==
    normalized # <<>> =>
        \A i \in DOMAIN loans :
            LET in == loans[i]
                out == normalized[1][i]
            IN  /\ IsCaseVariant(in.customer_type, <<"p", "r", "i", "v", "a", "t", "e">>)
                       => out.customer_type = Private
                /\ IsCaseVariant(in.customer_type, <<"v", "y", "a", "p", "a", "r", "i">>)
                       => out.customer_type = Vyapari
                /\ out.released \in {TrueFlag, FalseFlag}
                /\ (\/ IsCaseVariant(in.released, <<"t", "r", "u", "e">>)
                    \/ in.released = Bool(TRUE))
                       => out.released = TrueFlag
                /\ (\/ IsCaseVariant(in.released, <<"f", "a", "l", "s", "e">>)
                    \/ in.released = Bool(FALSE))
                       => out.released = FalseFlag

\* C18 witness: a normalized frame whose input had a mixed-case segment name
\* with a mixed-case string flag, and a row with a native boolean or a
\* missing flag
C18_Witness ==
    /\ normalized # <<>>
    /\ \E i \in DOMAIN loans :
           /\ loans[i].customer_type = Str(<<"p", "R", "i", "V", "a", "T", "e">>)
           /\ loans[i].released = Str(<<"t", "R", "u", "E">>)
           /\ normalized[1][i].customer_type = Private
           /\ normalized[1][i].released = TrueFlag
    /\ \E i \in DOMAIN loans :
           /\ loans[i].released \in {Bool(TRUE), None}
           /\ normalized[1][i].released \in {TrueFlag, FalseFlag}

----------------------------------------------------------------------------
(* Data caching: data_cache.py, utils.py, main.py and the loaders of the    *)
(* pages.  A snapshot is [fetched_at, seq, frame]: the time of the database *)
(* fetch that made it, the number of that fetch and the data frame.  The    *)
(* object a page gets from st.session_state is the stored object itself, so *)
(* an assignment to a column of it is an assignment to the stored frame.    *)

\* @st.cache_data(ttl=300) of data_cache.py
TTL == 300

\* @st.cache_data(ttl=3600) of the Interest Yield Analysis page
PageTTL == 3600

MaxTicks == 1

MaxFetches == 2

\* the steps of the clock: within the windows, past 300 s, past 3600 s
Advances == {1, 301, 3600}

\* the functions decorated with st.cache_data
CachedFunctions ==
    {"_fetch_loan_data_from_db", "_fetch_expense_data_from_db", "load_loan_data"}

\* the pages that read loan data: through data_cache, through the page's
\* own cached loader, and straight from the database
LoanPages == {"0_Executive_Dashboard", "10_Interest_Yield_Analysis", "1_Overview"}

\* the pages that call load_loan_data_with_cache: the Executive Dashboard
\* goes on to preprocess the frame it got, the Yearly Breakdown works on
\* copies of it
SessionLoanPages == {"0_Executive_Dashboard", "2_Yearly_Breakdown"}

\* the cache keys of the session and the two entries that go with each
CacheKeys == {"loan_data", "expense_data"}

cache_loaded_key(cache_key) ==
    IF cache_key = "loan_data" THEN "loan_data_loaded" ELSE "expense_data_loaded"

cache_timestamp_key(cache_key) ==
    IF cache_key = "loan_data" THEN "loan_data_loaded_at" ELSE "expense_data_loaded_at"

Entries(cache_key) ==
    {cache_key, cache_loaded_key(cache_key), cache_timestamp_key(cache_key)}

\* the loan table: empty, one row in the canonical encoding, one row in a
\* legacy encoding (lower-case segment name, native boolean flag)
TableContents ==
    {<<>>,
     <<[customer_type |-> Str(<<"P", "r", "i", "v", "a", "t", "e">>),
        released |-> Str(<<"F", "A", "L", "S", "E">>)]>>,
     <<[customer_type |-> Str(<<"p", "r", "i", "v", "a", "t", "e">>),
        released |-> Bool(TRUE)]>>}

ttl(f) == IF f = "load_loan_data" THEN PageTTL ELSE TTL

\* the entry of f is present and not expired
CacheHit(f) == st_cache[f] # <<>> /\ now - st_cache[f][1].fetched_at < ttl(f)

\* db.get_all_loans() / db.get_all_expenses(): a new snapshot; the expense
\* table is empty
FetchFromDb(f) ==
    [fetched_at |-> now, seq |-> fetches + 1,
     frame |-> IF f \in {"_fetch_expense_data_from_db", "get_all_expenses"}
               THEN <<>>
               ELSE table]

\* a call of the cached function f: its value, and the cache and the number
\* of fetches after it
CachedValue(f) == IF CacheHit(f) THEN st_cache[f][1] ELSE FetchFromDb(f)

CacheAfterCall(f) ==
    IF CacheHit(f) THEN st_cache ELSE [st_cache EXCEPT ![f] = <<FetchFromDb(f)>>]

FetchesAfterCall(f) == IF CacheHit(f) THEN fetches ELSE fetches + 1

\* the call can be made within the bound on the number of fetches
CanCall(f) == CacheHit(f) \/ fetches < MaxFetches

\* faulty variant: the loaded entry is never found
IsLoadedNever(state, cache_key) == FALSE

\* cache_loaded_key in st.session_state
IsLoaded(state, cache_key) == cache_loaded_key(cache_key) \in DOMAIN state

\* faulty variant: the load time is not recorded
StoreSnapshotUntimed(state, cache_key, data) ==
    (cache_key :> data)
    @@ (cache_loaded_key(cache_key) :> TRUE)
    @@ state

\* st.session_state[key] = data; [key_loaded] = True; [key_loaded_at] = now
StoreSnapshot(state, cache_key, data) ==
    (cache_key :> data)
    @@ (cache_loaded_key(cache_key) :> TRUE)
    @@ (cache_timestamp_key(cache_key) :> now)
    @@ state

\* del st.session_state[key] for the keys that are present
DeleteKeys(state, keys) == [k \in (DOMAIN state) \ keys |-> state[k]]

\* the Executive Dashboard's preprocessing of loan_df, run on the frame it
\* got from the session: the numeric columns are floats already, the
\* segment name and the released flag are rewritten by normalize_customer_data
Preprocess(state) ==
    [state EXCEPT !["loan_data"].frame = normalize_customer_data(@)]

\* the record of the data access made by the step that led to the state
\* (served is <<>> after a step that is no data access): the page (or module) that asked, the session
\* key it went through ("" when it bypasses the session), whether that key
\* was loaded before the call, what it got, when, whether it is the page's
\* first loan-data access since the last clear_all_cache, and the number of
\* fetches made before that clear
Access(page, cache_key, hit, snapshot) ==
    <<[page |-> page, key |-> cache_key, hit |-> hit,
       snapshot |-> snapshot, at |-> now,
       after_clear |-> page \in cleared.pending,
       cleared_seq |-> cleared.seq]>>

Visited(page) == [cleared EXCEPT !.pending = @ \ {page}]

InitCache ==
    /\ yield_df = <<>>
    /\ table \in TableContents
    /\ now = 0 /\ ticks = 0 /\ fetches = 0
    /\ st_cache = [f \in CachedFunctions |-> <<>>]
    /\ session_state = <<>>
    /\ served = <<>>
    /\ cleared = [seq |-> 0, pending |-> {}]
    /\ normalized = <<>> /\ aging = <<>> /\ example = <<>>
    /\ health = <<>> /\ loans = <<>> /\ realized = <<>> /\ ltv = <<>>
    /\ cohort = <<>> /\ metrics = <<>>
    /\ records = <<>> /\ agg = "sum" /\ pivot = <<>> /\ yoy = <<>> /\ mom = <<>>

\* time passes
Tick ==
    /\ ticks < MaxTicks
    /\ \E d \in Advances : now' = now + d
    /\ ticks' = ticks + 1
    /\ served' = <<>>
    /\ UNCHANGED <<fetches, st_cache, session_state, cleared, table, cohort, metrics, loans, realized, ltv, records, agg, pivot, yoy, mom, health, aging, example, normalized, yield_df>>

\* a page of the session calls data_cache.load_loan_data_with_cache(): an
\* empty loan table stops the script before anything is stored; the
\* Executive Dashboard then preprocesses a non-empty frame in place
LoadLoanDataWithCache ==
    \E page \in SessionLoanPages :
        LET hit == IsLoaded(session_state, "loan_data")
            loan_df == CachedValue("_fetch_loan_data_from_db")
            stopped == ~hit /\ loan_df.frame = <<>>
            stored == IF hit THEN session_state
                      ELSE StoreSnapshot(session_state, "loan_data", loan_df)
            after == IF page = "0_Executive_Dashboard" /\ stored["loan_data"].frame # <<>>
                     THEN Preprocess(stored)
                     ELSE stored
        IN  /\ hit \/ CanCall("_fetch_loan_data_from_db")
            /\ IF hit
               THEN UNCHANGED <<st_cache, fetches>>
               ELSE /\ st_cache' = CacheAfterCall("_fetch_loan_data_from_db")
                    /\ fetches' = FetchesAfterCall("_fetch_loan_data_from_db")
            /\ IF stopped
               THEN /\ served' = <<>>
                    /\ UNCHANGED <<session_state, cleared>>
               ELSE /\ session_state' = after
                    /\ served' = Access(page, "loan_data", hit, after["loan_data"])
                    /\ cleared' = Visited(page)
            /\ UNCHANGED <<now, ticks, table, cohort, metrics, loans, realized, ltv, records, agg, pivot, yoy, mom, health, aging, example, normalized, yield_df>>

\* a page of the session calls data_cache.load_expense_data_with_cache()
LoadExpenseDataWithCache ==
    LET hit == IsLoaded(session_state, "expense_data")
    IN  /\ hit \/ CanCall("_fetch_expense_data_from_db")
        /\ IF hit
           THEN UNCHANGED <<st_cache, fetches, session_state>>
           ELSE /\ st_cache' = CacheAfterCall("_fetch_expense_data_from_db")
                /\ fetches' = FetchesAfterCall("_fetch_expense_data_from_db")
                /\ session_state' =
                       StoreSnapshot(session_state, "expense_data",
                                     CachedValue("_fetch_expense_data_from_db"))
        /\ served' = Access("9_Expense_Tracker", "expense_data", hit,
                            session_state'["expense_data"])
        /\ UNCHANGED <<now, ticks, cleared, table, cohort, metrics, loans, realized, ltv, records, agg, pivot, yoy, mom, health, aging, example, normalized, yield_df>>

\* utils.load_with_session_cache(cache_key, loader_func) with the loaders of
\* its docstring, db.get_all_loans and db.get_all_expenses
LoadWithSessionCache ==
    \E cache_key \in CacheKeys :
        LET hit == IsLoaded(session_state, cache_key)
            loader_func == IF cache_key = "loan_data"
                           THEN "get_all_loans"
                           ELSE "get_all_expenses"
        IN  /\ hit \/ fetches < MaxFetches
            /\ IF hit
               THEN UNCHANGED <<fetches, session_state>>
               ELSE /\ fetches' = fetches + 1
                    /\ session_state' =
                           StoreSnapshot(session_state, cache_key, FetchFromDb(loader_func))
            /\ served' = Access("utils", cache_key, hit, session_state'[cache_key])
            /\ UNCHANGED <<now, ticks, st_cache, cleared, table, cohort, metrics, loans, realized, ltv, records, agg, pivot, yoy, mom, health, aging, example, normalized, yield_df>>

\* utils.invalidate_cache(cache_keys)
InvalidateCache ==
    \E cache_keys \in (SUBSET CacheKeys) \ {{}} :
        /\ session_state' =
               DeleteKeys(session_state, UNION {Entries(k) : k \in cache_keys})
        /\ served' = <<>>
        /\ UNCHANGED <<now, ticks, fetches, st_cache, cleared, table, cohort, metrics, loans, realized, ltv, records, agg, pivot, yoy, mom, health, aging, example, normalized, yield_df>>

\* the Interest Yield Analysis page calls its own load_loan_data()
LoadLoanData ==
    /\ CanCall("load_loan_data")
    /\ st_cache' = CacheAfterCall("load_loan_data")
    /\ fetches' = FetchesAfterCall("load_loan_data")
    /\ served' = Access("10_Interest_Yield_Analysis", "", FALSE,
                        CachedValue("load_loan_data"))
    /\ cleared' = Visited("10_Interest_Yield_Analysis")
    /\ UNCHANGED <<now, ticks, session_state, table, cohort, metrics, loans, realized, ltv, records, agg, pivot, yoy, mom, health, aging, example, normalized, yield_df>>

\* the Overview page calls db.get_all_loans() itself
GetAllLoans ==
    /\ fetches < MaxFetches
    /\ fetches' = fetches + 1
    /\ served' = Access("1_Overview", "", FALSE, FetchFromDb("get_all_loans"))
    /\ cleared' = Visited("1_Overview")
    /\ UNCHANGED <<now, ticks, st_cache, session_state, table, cohort, metrics, loans, realized, ltv, records, agg, pivot, yoy, mom, health, aging, example, normalized, yield_df>>

\* a page of another session calls one of the loaders of data_cache, which
\* goes through the shared st.cache_data entry
OtherSessionLoad ==
    /\ \E f \in {"_fetch_loan_data_from_db", "_fetch_expense_data_from_db"} :
           /\ ~CacheHit(f)
           /\ fetches < MaxFetches
           /\ st_cache' = CacheAfterCall(f)
           /\ fetches' = FetchesAfterCall(f)
    /\ served' = <<>>
    /\ UNCHANGED <<now, ticks, session_state, cleared, table, cohort, metrics, loans, realized, ltv, records, agg, pivot, yoy, mom, health, aging, example, normalized, yield_df>>

\* the Refresh Data button: data_cache.clear_all_cache()
ClearAllCache ==
    /\ st_cache' = [st_cache EXCEPT !["_fetch_loan_data_from_db"] = <<>>,
                                    !["_fetch_expense_data_from_db"] = <<>>]
    /\ session_state' =
           DeleteKeys(session_state,
                      {"loan_data", "loan_data_loaded", "loan_data_loaded_at",
                       "expense_data", "expense_data_loaded", "expense_data_loaded_at"})
    /\ cleared' = [seq |-> fetches, pending |-> LoanPages]
    /\ served' = <<>>
    /\ UNCHANGED <<now, ticks, fetches, table, cohort, metrics, loans, realized, ltv, records, agg, pivot, yoy, mom, health, aging, example, normalized, yield_df>>

NextCache ==
    \/ Tick
    \/ LoadLoanDataWithCache
    \/ LoadExpenseDataWithCache
    \/ LoadWithSessionCache
    \/ InvalidateCache
    \/ LoadLoanData
    \/ GetAllLoans
    \/ OtherSessionLoad
    \/ ClearAllCache

SpecCache == InitCache /\ [][NextCache]_vars

\* the calls of one session on its session cache, with the clock: the
\* loaders of data_cache and of utils, invalidate_cache and clear_all_cache
NextSession ==
    \/ Tick
    \/ LoadLoanDataWithCache
    \/ LoadExpenseDataWithCache
    \/ LoadWithSessionCache
    \/ InvalidateCache
    \/ ClearAllCache

SpecSession == InitCache /\ [][NextSession]_vars

----------------------------------------------------------------------------
(* Claims about the caches (checked under SpecCache) *)

\* C19: after clear_all_cache, the next loan-data access of every page of
\* the session is served by a database fetch made after the clear, never by
\* a snapshot cached before it.
C19_RefreshReachesEveryPage ==
    (served # <<>> /\ served[1].page \in LoanPages /\ served[1].after_clear)
        => served[1].snapshot.seq > served[1].cleared_seq

\* C20: no call of load_loan_data_with_cache or load_expense_data_with_cache
\* returns a snapshot fetched from the database more than 300 seconds before
\* the call.
C20_StalenessWindow ==
    (served # <<>> /\ served[1].page \in {"0_Executive_Dashboard", "9_Expense_Tracker"})
        => served[1].at - served[1].snapshot.fetched_at <= TTL

\* C21: no page run or utility call changes the content of the loan frame
\* held in the session cache: after any sequence of page runs the cached
\* snapshot equals the snapshot as it was fetched from the loan table.
C21_SnapshotImmutable ==
    "loan_data" \in DOMAIN session_state =>
        session_state["loan_data"].frame = table

----------------------------------------------------------------------------
(* Claims about the session cache (checked under SpecSession) *)

\* C22: while the entries of a key stay loaded (from the first load until
\* the next clear_all_cache / invalidate_cache of the key), the snapshot
\* stored under the key and its load time stay those of the first load, and
\* every call of load_loan_data_with_cache, load_expense_data_with_cache or
\* load_with_session_cache for the key returns that snapshot without a call
\* of the loader: no database fetch is made and no st.cache_data entry is
\* touched, however much time has passed.
C22_ServedFromSession ==
    [][\A k \in CacheKeys :
           cache_loaded_key(k) \in DOMAIN session_state =>
               /\ (served' # <<>> /\ served'[1].key = k) =>
                      /\ fetches' = fetches
                      /\ st_cache' = st_cache
                      /\ served'[1].snapshot.seq = session_state[k].seq
                      /\ served'[1].snapshot.fetched_at = session_state[k].fetched_at
               /\ cache_loaded_key(k) \in DOMAIN session_state' =>
                      /\ session_state'[k].seq = session_state[k].seq
                      /\ session_state'[k].fetched_at = session_state[k].fetched_at
                      /\ session_state'[cache_timestamp_key(k)]
                             = session_state[cache_timestamp_key(k)]]_vars

\* C22 witness: load_with_session_cache('loan_data', ...) answered from the
\* session more than 300 seconds after the snapshot was fetched, with the
\* fetch of the first load still the only one
C22_Witness ==
    /\ served # <<>>
    /\ served[1].page = "utils"
    /\ served[1].key = "loan_data"
    /\ served[1].hit
    /\ served[1].at - served[1].snapshot.fetched_at > TTL
    /\ served[1].snapshot.seq = 1
    /\ fetches = 1

\* the entries of key k that are present in a session state
Present(state, k) == Entries(k) \cap DOMAIN state

\* C29: in every reachable session state the three entries k, k_loaded and
\* k_loaded_at of each cache key are all present or all absent, under every
\* sequence of the loaders, clear_all_cache and invalidate_cache (a load
\* that finds an empty loan table and stops included); and a step that
\* removes the entries of one key leaves the entries of the other key as
\* they were, unless it removes them as well.
C29_EntriesTogether ==
    /\ [](\A k \in CacheKeys :
              Present(session_state, k) \in {{}, Entries(k)})
    /\ [][\A k \in CacheKeys : \A j \in CacheKeys \ {k} :
              (Present(session_state, k) # {} /\ Present(session_state', k) = {}) =>
                  \/ Present(session_state', j) = {}
                  \/ /\ Present(session_state', j) = Present(session_state, j)
                     /\ \A e \in Present(session_state, j) :
                            session_state'[e] = session_state[e]]_vars

\* C29 witness: the expense entries are all present while the loan entries
\* are all absent, after a load that found the loan table empty and stopped
\* (the fetch it made is in the st.cache_data entry)
C29_Witness ==
    /\ table = <<>>
    /\ st_cache["_fetch_loan_data_from_db"] # <<>>
    /\ Present(session_state, "loan_data") = {}
    /\ Present(session_state, "expense_data") = Entries("expense_data")

----------------------------------------------------------------------------
(* Further claims about the monthly pivot (checked under SpecPivot) *)

\* the input records that have a date, and the number of those that have none
DatedRecords == SelectSeq(records, LAMBDA r : ~isna(r.date))

ExcludedCount == Len(records) - Len(DatedRecords)

\* C23: a record with a missing or unparseable date never aborts
\* create_monthly_pivot: the pivot is returned, it is the pivot of the dated
\* records alone (the record contributes to no month cell and to no Total),
\* and the outcome reports the number of excluded records to the caller.
C23_UndatedRecordsCounted ==
    pivot # <<>> =>
        /\ ~pivot[1].raised
        /\ \A f \in {"index", "columns", "data"} :
               pivot[1][f] = create_monthly_pivot(DatedRecords, agg)[f]
        /\ "excluded" \in DOMAIN pivot[1]
        /\ pivot[1].excluded = ExcludedCount

\* C23, as far as the code goes: with at least one dated record the call
\* returns the pivot of the dated records alone
C23_UndatedRecordsDropped ==
    (pivot # <<>> /\ DatedRecords # <<>>) =>
        /\ ~pivot[1].raised
        /\ pivot[1] = create_monthly_pivot(DatedRecords, agg)

\* C25: in the output of calculate_yoy_change applied to a pivot that has a
\* Total column, every non-null cell is the percentage change between a year
\* column and the year column immediately before it: no non-null cell
\* stands in the Total column or is computed against it.
C25_YoyBetweenYearsOnly ==
    (yoy # <<>> /\ "Total" \in SeqToSet(pivot[1].columns)) =>
        LET p == pivot[1] IN
        \A r \in SeqToSet(p.index) : \A c \in SeqToSet(p.columns) :
            yoy[1].data[r][c] # NaN =>
                LET j == ColumnPosition(p, c)
                IN  /\ c # "Total"
                    /\ j > 1
                    /\ p.columns[j - 1] # "Total"
                    /\ yoy[1].data[r][c] =
                           Times100(PctChange(p.data[r][p.columns[j - 1]],
                                              p.data[r][c]))

\* C25, as far as the code goes: the same for the cells of the year columns
C25_YoyOfYearColumns ==
    (yoy # <<>> /\ "Total" \in SeqToSet(pivot[1].columns)) =>
        LET p == pivot[1] IN
        \A r \in SeqToSet(p.index) : \A c \in YearColumns(p) :
            yoy[1].data[r][c] # NaN =>
                LET j == ColumnPosition(p, c)
                IN  /\ j > 1
                    /\ p.columns[j - 1] # "Total"
                    /\ yoy[1].data[r][c] =
                           Times100(PctChange(p.data[r][p.columns[j - 1]],
                                              p.data[r][c]))

----------------------------------------------------------------------------
(* Further claims about the portfolio yield (checked under SpecYield) *)

\* the smallest and the largest holding days of the valid loans
SmallestDays == CHOOSE d \in {cohort[i].days[1] : i \in ValidLoans} :
               \A i \in ValidLoans : d <= cohort[i].days[1]

LargestDays == CHOOSE d \in {cohort[i].days[1] : i \in ValidLoans} :
               \A i \in ValidLoans : d >= cohort[i].days[1]

\* C28: for a cohort with exactly one valid loan portfolio_yield equals that
\* loan's per-loan annualized yield (interest / principal x 365 / days x 100)
\* and weighted_avg_days equals its holding days; for any cohort with a valid
\* loan weighted_avg_days lies between the smallest and the largest holding
\* days of the valid loans.
C28_SingleLoanAndDaysBounds ==
    (metrics # <<>> /\ ValidLoans # {}) =>
        /\ \A i \in ValidLoans :
               ValidLoans = {i} =>
                   /\ metrics[1].portfolio_yield = LoanYield(i)
                   /\ metrics[1].weighted_avg_days = Int2Rat(cohort[i].days[1])
        /\ ~RLess(metrics[1].weighted_avg_days, Int2Rat(SmallestDays))
        /\ ~RLess(Int2Rat(LargestDays), metrics[1].weighted_avg_days)

\* C28 witness: a computed cohort of exactly one loan, valid, with capital 2,
\* 2 holding days and interest, whose yield is that loan's own yield
C28_Witness ==
    /\ metrics # <<>>
    /\ Len(cohort) = 1
    /\ ValidLoans = {1}
    /\ cohort[1].capital = Num(2)
    /\ cohort[1].days = Num(2)
    /\ cohort[1].interest = Num(1)
    /\ metrics[1].portfolio_yield = Rat(365 * 100, 4)

----------------------------------------------------------------------------
(* Further claims about realized interest (checked under SpecInterest) *)

----------------------------------------------------------------------------
(* The yield cohort: prepare_yield_data of the Interest Yield Analysis page, *)
(* applied to the frame of db.get_all_loans() as it is (the page does not    *)
(* normalize the released flag).  A date is a day number.                    *)

ReleaseDays == {10, 40}

DisbursementDay == 10

YieldLoanAmountValues == {0, 100}

YieldDepositedValues == {-1, 0, 2}

\* the stored released flag: the canonical spellings and a legacy one
StoredFlags == {"TRUE", "FALSE", "true"}

RawLoanRows ==
    [date_of_disbursement : {Num(DisbursementDay)},
     date_of_release : Optional(ReleaseDays),
     loan_amount : {Num(v) : v \in YieldLoanAmountValues},
     released : StoredFlags,
     interest_deposited_till_date : {Num(v) : v \in YieldDepositedValues},
     interest_amount : {Num(5)}]

\* (date_of_release - date_of_disbursement).dt.days
days_to_release(row) ==
    IF isna(row.date_of_release) \/ isna(row.date_of_disbursement) THEN NaN
    ELSE Num(row.date_of_release[1] - row.date_of_disbursement[1])

\* prepare_yield_data(df): None (returned_none) when no loan has a release
\* date or none is left after the removal of invalid data; otherwise the
\* loans kept, with days_to_release, realized_interest and interest_yield
\* (the release_year and release_month columns are not modelled)
prepare_yield_data(df) ==
    LET released == SelectSeq(df, LAMBDA r : ~isna(r.date_of_release))
        valid == SelectSeq(released,
                           LAMBDA r : GtZero(days_to_release(r)) /\ GtZero(r.loan_amount))
        realized_interest == calculate_realized_interest(valid)
    IN  IF released = <<>> \/ valid = <<>>
        THEN [returned_none |-> TRUE, rows |-> <<>>]
        ELSE [returned_none |-> FALSE,
              rows |-> [i \in DOMAIN valid |->
                  [date_of_release |-> valid[i].date_of_release,
                   loan_amount |-> valid[i].loan_amount,
                   released |-> valid[i].released,
                   interest_deposited_till_date |-> valid[i].interest_deposited_till_date,
                   interest_amount |-> valid[i].interest_amount,
                   days_to_release |-> days_to_release(valid[i]),
                   realized_interest |-> realized_interest[i],
                   interest_yield |->
                       interest_yield([interest |-> realized_interest[i],
                                       capital |-> valid[i].loan_amount,
                                       days |-> days_to_release(valid[i])])]]]

InitYieldData ==
    /\ loans \in Frames(RawLoanRows, MaxRows)
    /\ yield_df = <<>>
    /\ table = <<>> /\ cleared = <<>> /\ served = <<>> /\ session_state = <<>>
    /\ st_cache = <<>> /\ fetches = <<>> /\ ticks = <<>> /\ now = <<>>
    /\ normalized = <<>> /\ aging = <<>> /\ example = <<>>
    /\ health = <<>> /\ realized = <<>> /\ ltv = <<>>
    /\ cohort = <<>> /\ metrics = <<>>
    /\ records = <<>> /\ agg = "sum" /\ pivot = <<>> /\ yoy = <<>> /\ mom = <<>>

\* yield_df = prepare_yield_data(raw_df)
PrepareYieldData ==
    /\ yield_df = <<>>
    /\ yield_df' = <<prepare_yield_data(loans)>>
    /\ UNCHANGED <<loans, cohort, metrics, realized, ltv, records, agg, pivot, yoy, mom, health, aging, example, normalized, now, ticks, fetches, st_cache, session_state, served, cleared, table>>

NextYieldData == PrepareYieldData

SpecYieldData == InitYieldData /\ [][NextYieldData]_vars

\* C26: every loan that prepare_yield_data keeps in the yield cohort
\* (release date present, positive holding days and principal) and whose
\* interest_deposited_till_date is <= 0 gets realized_interest equal to
\* interest_amount, whatever the value of the stored released flag.
C26_ReleasedByDate ==
    yield_df # <<>> =>
        \A i \in DOMAIN yield_df[1].rows :
            LET row == yield_df[1].rows[i]
            IN  /\ ~isna(row.date_of_release)
                /\ GtZero(row.days_to_release)
                /\ GtZero(row.loan_amount)
                /\ LeZero(row.interest_deposited_till_date)
                       => row.realized_interest = row.interest_amount

\* C26, as far as the code goes: the same for the loans whose stored flag
\* is exactly 'TRUE'
C26_ReleasedByFlag ==
    yield_df # <<>> =>
        \A i \in DOMAIN yield_df[1].rows :
            LET row == yield_df[1].rows[i]
            IN  /\ ~isna(row.date_of_release)
                /\ GtZero(row.days_to_release)
                /\ GtZero(row.loan_amount)
                /\ (row.released = "TRUE" /\ LeZero(row.interest_deposited_till_date))
                       => row.realized_interest = row.interest_amount

----------------------------------------------------------------------------
(* The aged items of one loan over time: the Aged Items Alert block run     *)
(* again at a later evaluation time, now = datetime.now() of the later run. *)

\* the whole days between two runs of the page
DayAdvances == {1, 265, 366, 631}

\* filtered_df at a run d days later: days_since_disbursement of every dated
\* loan is d days more; the loans of the set released_since were released
\* in between
LaterFrame(df, d, released_since) ==
    [i \in DOMAIN df |->
        [df[i] EXCEPT
            !.days_since_disbursement = IF isna(@) THEN NaN ELSE Num(@[1] + d),
            !.released = IF i \in released_since THEN "TRUE" ELSE @]]

InitAgingOverTime ==
    /\ loans \in Frames(AgedRows, 1)
    /\ example = <<>>
    /\ aging = <<>>
    /\ ticks = 0
    /\ yield_df = <<>> /\ table = <<>> /\ cleared = <<>> /\ served = <<>>
    /\ session_state = <<>> /\ st_cache = <<>> /\ fetches = <<>> /\ now = <<>>
    /\ normalized = <<>>
    /\ health = <<>> /\ realized = <<>> /\ ltv = <<>>
    /\ cohort = <<>> /\ metrics = <<>>
    /\ records = <<>> /\ agg = "sum" /\ pivot = <<>> /\ yoy = <<>> /\ mom = <<>>

\* the page is run again some days after an earlier run
LaterAgedItems ==
    /\ aging # <<>>
    /\ ticks < MaxTicks
    /\ ticks' = ticks + 1
    /\ \E d \in DayAdvances : \E released_since \in SUBSET ActiveIndex(loans) :
           /\ loans' = LaterFrame(loans, d, released_since)
           /\ aging' = <<aged_items(LaterFrame(loans, d, released_since))>>
    /\ UNCHANGED <<example, health, realized, ltv, cohort, metrics, records, agg, pivot, yoy, mom, normalized, now, fetches, st_cache, session_state, served, cleared, table, yield_df>>

NextAgingOverTime == AgedItems \/ LaterAgedItems

SpecAgingOverTime == InitAgingOverTime /\ [][NextAgingOverTime]_vars

\* the loans flagged as aged for their segment in an outcome of the block
SegmentAgedIn(outcome) == outcome.private_aged \cup outcome.vyapari_aged

\* C27: from one evaluation to a later one, for every loan that is active
\* at both with the same LTV and customer type, equity_remaining does not
\* increase (and is missing at both or at neither), a loan flagged
\* payment_overdue stays flagged and a segment-aged loan stays segment-aged.
C27_MonotoneOverTime ==
    [][(aging # <<>> /\ aging' # <<>>) =>
           \A i \in aging[1].index \cap aging'[1].index :
               (/\ loans'[i].customer_type = loans[i].customer_type
                /\ calculate_correct_ltv(loans')[i] = calculate_correct_ltv(loans)[i])
               =>
                   /\ isna(aging'[1].equity_remaining[i])
                          <=> isna(aging[1].equity_remaining[i])
                   /\ ~isna(aging[1].equity_remaining[i]) =>
                          ~RLess(aging[1].equity_remaining[i][1],
                                 aging'[1].equity_remaining[i][1])
                   /\ i \in aging[1].payment_overdue
                          => i \in aging'[1].payment_overdue
                   /\ i \in SegmentAgedIn(aging[1])
                          => i \in SegmentAgedIn(aging'[1])]_vars

\* C27 witness: at a later evaluation, one day after the first day past the
\* threshold, an active Private loan is still segment-aged and still
\* payment-overdue
C27_Witness ==
    /\ aging # <<>>
    /\ ticks = 1
    /\ loans # <<>>
    /\ loans[1].released = "FALSE"
    /\ loans[1].customer_type = "Private"
    /\ loans[1].days_since_disbursement = Num(367)
    /\ 1 \in aging[1].private_aged
    /\ 1 \in aging[1].payment_overdue

----------------------------------------------------------------------------
(* Normalization run again: every rerun of a page calls                     *)
(* normalize_customer_data on the frame the run before left in the session. *)

\* a row of the loan table, the segment name possibly missing
RerunRows ==
    [customer_type : {Str(w) : w \in TypeSpellings} \cup {None},
     released : {Str(w) : w \in FlagSpellings} \cup {Bool(TRUE), Bool(FALSE), None}]

InitNormalizeRerun ==
    /\ loans \in Frames(RerunRows, 1)
    /\ normalized = <<>>
    /\ ticks = 0
    /\ yield_df = <<>> /\ table = <<>> /\ cleared = <<>> /\ served = <<>>
    /\ session_state = <<>> /\ st_cache = <<>> /\ fetches = <<>> /\ now = <<>>
    /\ aging = <<>> /\ example = <<>>
    /\ health = <<>> /\ realized = <<>> /\ ltv = <<>>
    /\ cohort = <<>> /\ metrics = <<>>
    /\ records = <<>> /\ agg = "sum" /\ pivot = <<>> /\ yoy = <<>> /\ mom = <<>>

\* a rerun: loan_df = utils.normalize_customer_data(loan_df) on the frame
\* that is already normalized; ticks counts the reruns
NormalizeCustomerDataAgain ==
    /\ normalized # <<>>
    /\ ticks < MaxTicks
    /\ ticks' = ticks + 1
    /\ normalized' = <<normalize_customer_data(normalized[1])>>
    /\ UNCHANGED <<loans, aging, example, health, realized, ltv, cohort, metrics, records, agg, pivot, yoy, mom, now, fetches, st_cache, session_state, served, cleared, table, yield_df>>

NextNormalizeRerun == NormalizeCustomerData \/ NormalizeCustomerDataAgain

SpecNormalizeRerun == InitNormalizeRerun /\ [][NextNormalizeRerun]_vars

\* C30: normalize_customer_data is idempotent: applied to an already
\* normalized frame it changes no customer_type and no released value,
\* whatever the encoding of the frame the first application was given.
C30_Idempotent ==
    [][(normalized # <<>> /\ normalized' # <<>>) =>
           normalized' = normalized]_vars

\* C30 witness: a rerun has normalized again a frame whose first
\* normalization changed both the segment name and a native boolean flag
C30_Witness ==
    /\ normalized # <<>>
    /\ ticks = 1
    /\ loans # <<>>
    /\ loans[1].customer_type = Str(<<"p", "R", "i", "V", "a", "T", "e">>)
    /\ loans[1].released = Bool(TRUE)
    /\ normalized[1][1].customer_type = Private
    /\ normalized[1][1].released = TrueFlag

====
